---- MODULE Spec2Model ----
(***************************************************************************)
(* Tool-orchestration core of the 2nd Brain client:                        *)
(*   - services/mcp-client.ts : OAuth credential cache and its mirror in   *)
(*     secure storage, auth headers, tool invocation (callMCPTool);        *)
(*   - the core agent (chat)  : the bounded agentic loop with model        *)
(*     fallback and tool-call chaining.                                    *)
(***************************************************************************)
EXTENDS Integers, Sequences, FiniteSets, TLC

\* ------------------------------------------------------------------------
\* Bounds of the model
\* ------------------------------------------------------------------------
\* Date.now() ranges over 1..MaxTime seconds (kept in milliseconds).
MaxTime == 3
\* lengths of validity a token can be issued with, in seconds: 1..MaxExpiresIn
MaxExpiresIn == 2
\* calls of getMCPAuthHeaders counted in one failure episode
MaxCalls == 3
\* function calls one model response can carry
MaxCallsPerResponse == 2
\* how often one turn may leave the plain course (a response with a single
\* call of the default tool, answered by the primary model, the call
\* returning a well-formed success)
MaxDeviations == 1

\* ------------------------------------------------------------------------
\* Program constants
\* ------------------------------------------------------------------------
\* const MAX_TOOL_ITERATIONS = 8
MAX_TOOL_ITERATIONS == 8
\* setMCPGoogleToken: Date.now() + expiresIn * 1000
MsPerSecond == 1000
\* refreshGoogleToken: data.expires_in || 3600, scaled to the model's clock
\* (the default is longer than every validity the backend states itself)
DefaultExpiresIn == 3600

Null == "null"

AccessTokens == {"at1", "at2"}
RefreshTokens == {"rt1"}

\* SECURE_KEYS
SECURE_KEYS == {"mcp_google_access_token", "mcp_google_refresh_token", "mcp_google_token_expiry"}

\* ------------------------------------------------------------------------
\* Number <-> decimal string (Number.prototype.toString, parseInt(s, 10)).
\* A decimal string is the sequence of its digits, most significant first.
\* ------------------------------------------------------------------------
RECURSIVE toString(_)
toString(n) == IF n < 10 THEN <<n>> ELSE Append(toString(n \div 10), n % 10)

RECURSIVE parseInt(_)
parseInt(s) == IF Len(s) = 0 THEN 0
               ELSE parseInt(SubSeq(s, 1, Len(s) - 1)) * 10 + s[Len(s)]

\* ------------------------------------------------------------------------
\* URLs.  A URL is a host and the tail of its path, which is all the
\* regular expressions of the client look at.
\* ------------------------------------------------------------------------
NoUrl == [host |-> "", tail |-> ""]
Hosts == {"g", "t", "localhost", "mcp.serpapi.com"}
Tails == {"", "/", "/mcp", "/mcp/"}
Urls == [host : Hosts, tail : Tails]

\* url.replace(/\/$/, "")
stripSlash(u) == IF u.tail = "/" THEN [u EXCEPT !.tail = ""]
                 ELSE IF u.tail = "/mcp/" THEN [u EXCEPT !.tail = "/mcp"]
                 ELSE u
\* url.replace(/\/mcp$/, "")
stripMcp(u) == IF u.tail = "/mcp" THEN [u EXCEPT !.tail = ""] ELSE u
\* url.replace(/\/mcp\/?$/, "")
stripMcpOptSlash(u) == IF u.tail \in {"/mcp", "/mcp/"} THEN [u EXCEPT !.tail = ""] ELSE u
\* an empty string is falsy
isEmptyUrl(u) == u.host = "" /\ u.tail = ""

VARIABLES
    \* configuration (module constants of mcp-client.ts, fixed per process)
    MCP_GOOGLE_URL, MCP_TRAVEL_URL, MCP_API_KEY, SERPAPI_API_KEY,
    \* what the servers answer: anything, or a fixed answer per request
    backend,
    \* in-memory OAuth cache
    googleAccessToken, googleRefreshToken, googleTokenExpiry, authInitialized,
    \* secure storage: key -> value, Null when the key is absent
    secureStore,
    \* _mcpSessions, _serverProtocol, toolToServerMap
    mcpSessions, serverProtocol, toolToServerMap,
    \* Date.now(), in milliseconds
    now,
    \* brain state of the agent: state.initialized, state.mcpConnected, state.mcpTools
    initialized, mcpConnected, mcpTools,
    \* the turn chat() is working on, or worked on last
    turn,
    \* what the last completed client operation did (observation only)
    last,
    \* observation of a run of getMCPAuthHeaders calls after a failed refresh
    episode,
    \* the asynchronous operations in flight, each where its next await resumes
    tasks

authVars == <<googleAccessToken, googleRefreshToken, googleTokenExpiry, authInitialized, secureStore>>
mcpVars == <<mcpSessions, serverProtocol, toolToServerMap>>
brainVars == <<initialized, mcpConnected, mcpTools>>
cfgVars == <<MCP_GOOGLE_URL, MCP_TRAVEL_URL, MCP_API_KEY, SERPAPI_API_KEY, backend>>

\* const MCP_SERVER_URL = MCP_GOOGLE_URL
MCP_SERVER_URL == MCP_GOOGLE_URL

\* ------------------------------------------------------------------------
\* The OAuth credential as an operation sees and changes it.
\*   acc, ref, exp : _googleAccessToken, _googleRefreshToken, _googleTokenExpiry
\*   store         : secure storage (expiry kept as a decimal string, <<>> absent)
\*   sessions      : _mcpSessions
\*   proto, map    : _serverProtocol, toolToServerMap
\*   ev            : auth events emitted by the running operation, in order
\*   fetches       : requests the running operation sent, in order
\*   trace         : whether fetches is kept (observation only)
\*   backend       : what the servers answer (the environment of the operation)
\* ------------------------------------------------------------------------
EmptyStore == [access |-> Null, refresh |-> Null, expiry |-> <<>>]

\* No operation is in flight: operations run one after the other.
NoTasks == <<>>

\* The servers may answer any request in any way.
AnyBackend == [static |-> FALSE]

ClientState == [acc |-> googleAccessToken, ref |-> googleRefreshToken, exp |-> googleTokenExpiry,
                store |-> secureStore, sessions |-> mcpSessions, proto |-> serverProtocol,
                map |-> toolToServerMap, ev |-> <<>>, fetches |-> <<>>, trace |-> TRUE,
                backend |-> backend]
\* the same, for an operation whose requests are not observed
Untraced == [ClientState EXCEPT !.trace = FALSE]

\* emitAuthEvent
emitAuthEvent(a, event) == [a EXCEPT !.ev = Append(@, event)]

\* clearMCPGoogleToken that forgets the deletes from secure storage
clearMCPGoogleToken_memoryOnly(a) ==
    emitAuthEvent([a EXCEPT !.acc = Null, !.ref = Null, !.exp = 0], "token_cleared")

\* clearMCPGoogleToken
clearMCPGoogleToken(a) ==
    emitAuthEvent([a EXCEPT !.acc = Null, !.ref = Null, !.exp = 0, !.store = EmptyStore],
                  "token_cleared")

\* setMCPGoogleToken that does not persist the refresh token
setMCPGoogleToken_refreshNotPersisted(a, accessToken, expiresIn, refreshToken, t) ==
    LET expiry == t + expiresIn * MsPerSecond
    IN  [a EXCEPT !.acc = accessToken,
                  !.exp = expiry,
                  !.ref = IF refreshToken # Null THEN refreshToken ELSE @,
                  !.store = [access  |-> accessToken,
                             expiry  |-> toString(expiry),
                             refresh |-> a.store.refresh]]

\* setMCPGoogleToken(accessToken, expiresIn, refreshToken) called at time t;
\* refreshToken = Null stands for an absent (or empty) third argument.
setMCPGoogleToken(a, accessToken, expiresIn, refreshToken, t) ==
    LET expiry == t + expiresIn * MsPerSecond
    IN  [a EXCEPT !.acc = accessToken,
                  !.exp = expiry,
                  !.ref = IF refreshToken # Null THEN refreshToken ELSE @,
                  !.store = [access  |-> accessToken,
                             expiry  |-> toString(expiry),
                             refresh |-> IF refreshToken # Null THEN refreshToken
                                         ELSE a.store.refresh]]

\* The log entry of one fetch: where it went and what it carried.
Request(url, path, method, headers, session, tool) ==
    [url |-> url, path |-> path, method |-> method, headers |-> headers, session |-> session,
     tool |-> tool]
\* Headers of a request: the X-API-Key value and the bearer token, Null when absent.
NoHeaders == [xApiKey |-> Null, authorization |-> Null]
\* fetch(`${serverBase}/auth/refresh`, { method: "POST", ... })
RefreshRequest(serverBase) == Request(serverBase, "/auth/refresh", "POST", NoHeaders, Null, <<>>)

\* the running operation sends a request (logged only when it is traced)
logFetch(a, request) == IF a.trace THEN [a EXCEPT !.fetches = Append(@, request)] ELSE a

\* What the identity backend answers to POST /auth/refresh.
RefreshReplies ==
    {[kind |-> k, access_token |-> Null, expires_in |-> 0] :
         k \in {"network_error", "not_ok", "bad_json"}}
    \cup {[kind |-> "ok", access_token |-> tok, expires_in |-> e] :
         tok \in AccessTokens \cup {Null}, e \in 0..MaxExpiresIn}

\* the failure exit that signals re-login but leaves the stale credential
refreshFailed_keepsToken(a) == [a |-> emitAuthEvent(a, "needs_relogin"), ok |-> FALSE]

\* clear + emit("needs_relogin"), the failure exit of refreshGoogleToken
refreshFailed(a) == [a |-> emitAuthEvent(clearMCPGoogleToken(a), "needs_relogin"), ok |-> FALSE]

\* refreshGoogleToken from the reply to its request on (what follows the
\* await of fetch)
refreshReplied(a, t, reply) ==
    IF reply.kind # "ok"
    THEN refreshFailed(a)
    ELSE IF reply.access_token # Null
         THEN [a  |-> emitAuthEvent(
                        setMCPGoogleToken(a, reply.access_token,
                            IF reply.expires_in # 0 THEN reply.expires_in ELSE DefaultExpiresIn,
                            a.ref, t),
                        "token_refreshed"),
               ok |-> TRUE]
         ELSE refreshFailed(a)

\* const serverBase = MCP_SERVER_URL ? MCP_SERVER_URL.replace(...) : ""
serverBase == IF ~isEmptyUrl(MCP_SERVER_URL)
              THEN stripSlash(stripMcpOptSlash(MCP_SERVER_URL))
              ELSE NoUrl

\* refreshGoogleToken called at time t, the backend answering reply
refreshGoogleToken(a, t, reply) ==
    IF a.ref = Null
    THEN IF a.acc # Null THEN refreshFailed(a) ELSE [a |-> a, ok |-> FALSE]
    ELSE IF isEmptyUrl(serverBase)
         THEN refreshFailed(a)
         ELSE refreshReplied(logFetch(a, RefreshRequest(serverBase)), t, reply)

\* getMCPAuthHeaders(mcpUrl) called at time t; refreshes counts its calls of
\* refreshGoogleToken and refreshed is what the call returned.
getMCPAuthHeaders(a, mcpUrl, t, reply) ==
    LET apiKey     == MCP_API_KEY
        travelRoot == stripMcp(stripSlash(MCP_TRAVEL_URL))
        mcpRoot    == stripMcp(stripSlash(mcpUrl))
        isTravelUrl == ~isEmptyUrl(mcpUrl) /\ ~isEmptyUrl(travelRoot) /\ mcpRoot = travelRoot
    IN  IF isTravelUrl /\ apiKey # ""
        THEN [a |-> a, headers |-> [NoHeaders EXCEPT !.xApiKey = apiKey], refreshes |-> 0,
              refreshed |-> FALSE]
        ELSE IF a.acc # Null
             THEN LET expired == a.exp <= t
                      r == IF expired THEN refreshGoogleToken(a, t, reply) ELSE [a |-> a, ok |-> TRUE]
                  IN  [a |-> r.a,
                       headers |-> IF r.a.acc # Null /\ r.a.exp > t
                                   THEN [NoHeaders EXCEPT !.authorization = r.a.acc]
                                   ELSE NoHeaders,
                       refreshes |-> IF expired THEN 1 ELSE 0,
                       refreshed |-> expired /\ r.ok]
             ELSE [a |-> a, headers |-> NoHeaders, refreshes |-> 0, refreshed |-> FALSE]

\* loadPersistedAuth that trusts whatever is persisted
loadPersistedAuth_noExpiryCheck(a, authInit, t) ==
    IF authInit THEN a
    ELSE IF a.store.access # Null /\ a.store.expiry # <<>>
         THEN [a EXCEPT !.acc = a.store.access, !.ref = a.store.refresh,
                        !.exp = parseInt(a.store.expiry)]
         ELSE a

\* loadPersistedAuth called at time t
loadPersistedAuth(a, authInit, t) ==
    IF authInit THEN a
    ELSE LET token == a.store.access
             refresh == a.store.refresh
             expiry == a.store.expiry
         IN  IF token # Null /\ expiry # <<>>
             THEN LET expiryMs == parseInt(expiry)
                  IN  IF expiryMs > t
                      THEN [a EXCEPT !.acc = token, !.ref = refresh, !.exp = expiryMs]
                      ELSE clearMCPGoogleToken(a)
             ELSE a

\* getMCPAuthHeaders for every answer the identity backend can give
getMCPAuthHeadersAny(a, mcpUrl, t) == {getMCPAuthHeaders(a, mcpUrl, t, reply) : reply \in RefreshReplies}
\* refreshGoogleToken for every answer the identity backend can give
refreshGoogleTokenAny(a, t) == {refreshGoogleToken(a, t, reply) : reply \in RefreshReplies}

\* ------------------------------------------------------------------------
\* Tool names.  A name is the sequence of its words and separators, so that
\* "drive.search" is <<"drive", ".", "search">>.
\* ------------------------------------------------------------------------
\* toolName.replace(/\./g, "_")
replaceDots(name) == [i \in DOMAIN name |-> IF name[i] = "." THEN "_" ELSE name[i]]
\* name.replace(/^google_/, "")
stripGooglePrefix(name) ==
    IF Len(name) >= 2 /\ name[1] = "google" /\ name[2] = "_"
    THEN SubSeq(name, 3, Len(name)) ELSE name

\* MINIMAL_TOOL_ALIASES
MINIMAL_TOOL_ALIASES ==
    (<<"gmail", "_", "read", "_", "message">> :> <<"gmail", "_", "read", "_", "email">>)
    @@ (<<"gmail", "_", "list", "_", "messages">> :> <<"gmail", "_", "list", "_", "emails">>)
    @@ (<<"gmail", "_", "search", "_", "messages">> :> <<"gmail", "_", "list", "_", "emails">>)
    @@ (<<"contacts", "_", "search", "_", "contacts">> :> <<"contacts", "_", "search">>)
    @@ (<<"contacts", "_", "list", "_", "contacts">> :> <<"contacts", "_", "list">>)
    @@ (<<"drive", "_", "search">> :> <<"drive", "_", "search", "_", "files">>)

\* normalizeToolName (both branches after the alias lookup return normalized)
normalizeToolName(toolName) ==
    LET normalized == stripGooglePrefix(replaceDots(toolName))
    IN  IF normalized \in DOMAIN MINIMAL_TOOL_ALIASES
        THEN MINIMAL_TOOL_ALIASES[normalized]
        ELSE normalized

SessionIds == {"s1"}

\* What a server answers to one JSON-RPC POST: the fetch rejects
\* (network_error), or it answers with a status, a body and perhaps an
\* mcp-session-id header.
RpcResponses ==
    {[kind |-> "network_error", sid |-> Null]}
    \cup [kind : {"http_error", "bad_body", "rpc_error", "result"}, sid : SessionIds \cup {Null}]

\* The server behind a URL, by the hosts of Configs.
serverAt(url) == IF url.host \in {"g", "localhost"} THEN "google" ELSE "travel"

\* What the server at mcpUrl answers to a JSON-RPC POST of a method: anything,
\* or, when the backend is static, what it always answers to that method.
rpcReplies(a, mcpUrl, method) ==
    IF a.backend.static
    THEN LET p == a.backend[serverAt(mcpUrl)]
         IN  {CASE method = "initialize" -> p.init
                [] method = "notifications/initialized" -> p.notif
                [] method = "tools/list" -> p.list
                [] OTHER -> p.call}
    ELSE RpcResponses

\* mcpRpc(mcpUrl, method, params, isNotification): every way the call can go.
\* An outcome is the client state after it and whether it threw.
mcpRpc(a, mcpUrl, method, params, isNotification, t) ==
    UNION {
      LET a1 == logFetch(h.a, Request(mcpUrl, "", method, h.headers, h.a.sessions[mcpUrl], params))
      IN  { IF resp.kind = "network_error"
            THEN [a |-> a1, thrown |-> TRUE, cause |-> "network"]
            ELSE LET a2 == IF resp.sid # Null
                           THEN [a1 EXCEPT !.sessions[mcpUrl] = resp.sid] ELSE a1
                 IN  IF isNotification THEN [a |-> a2, thrown |-> FALSE, cause |-> "none"]
                     ELSE IF resp.kind = "http_error" THEN [a |-> a2, thrown |-> TRUE, cause |-> "http"]
                     ELSE IF resp.kind = "bad_body" THEN [a |-> a2, thrown |-> TRUE, cause |-> "unparseable"]
                     ELSE IF resp.kind = "rpc_error" THEN [a |-> a2, thrown |-> TRUE, cause |-> "rpc_error"]
                     ELSE [a |-> a2, thrown |-> FALSE, cause |-> "none"]
            : resp \in rpcReplies(a, mcpUrl, method) }
      : h \in getMCPAuthHeadersAny(a, mcpUrl, t) }

\* an mcpInitialize that leaves the notification out
mcpInitialize_noNotification(a, mcpUrl, t) ==
    { IF o.thrown THEN [o EXCEPT !.cause = "handshake"] ELSE o
      : o \in mcpRpc(a, mcpUrl, "initialize", <<>>, FALSE, t) }

\* mcpInitialize: initialize, then the notifications/initialized notification
mcpInitialize(a, mcpUrl, t) ==
    UNION { IF o.thrown THEN {[o EXCEPT !.cause = "handshake"]}
            ELSE {[n EXCEPT !.cause = IF n.thrown THEN "handshake" ELSE "none"] :
                     n \in mcpRpc(o.a, mcpUrl, "notifications/initialized", <<>>, TRUE, t)}
            : o \in mcpRpc(a, mcpUrl, "initialize", <<>>, FALSE, t) }

\* The result value of a tools/call (stateful) or the body of a call reply
\* (stateless), by the shape the client has to tell apart:
\*   content        { content: [ {type, text}, ... ] }
\*   content_error  the same with isError: true (the remote tool failed)
\*   content_bad    { content: <truthy, but no list of items> }
\*   content_bad_error  the same with isError: true
\*   string         a bare string
\*   other          anything else
ResultShapes == {"content", "content_error", "content_bad", "content_bad_error", "string", "other"}

\* A tool result as callMCPTool returns it (MCPToolResult).
\*   thrown  : the call rejected instead of returning
\*   isError : the isError flag (absent counts as FALSE)
\*   content : "list" if content is a list of items, "not_a_list" otherwise
\*   text    : what the text item carries
\*   cause   : the failure of the server that led here ("none" if none did)
ToolResult(isError, content, text, cause) ==
    [thrown |-> FALSE, isError |-> isError, content |-> content, text |-> text, cause |-> cause]

\* normalisation of a result value in mcpCallTool / callMCPTool
normalizeResult(shape) ==
    IF shape = "content" THEN ToolResult(FALSE, "list", "result", "none")
    ELSE IF shape = "content_error" THEN ToolResult(TRUE, "list", "result", "remote_tool")
    ELSE IF shape = "content_bad" THEN ToolResult(FALSE, "not_a_list", "result", "none")
    ELSE IF shape = "content_bad_error" THEN ToolResult(TRUE, "not_a_list", "result", "remote_tool")
    ELSE IF shape = "string" THEN ToolResult(FALSE, "list", "result", "none")
    ELSE ToolResult(FALSE, "list", "json", "none")

\* An outcome of a call: the client state after it and its result.
\* raised marks an exception on its way to the catch block of callMCPTool.
Raised(a, cause) == [a |-> a, raised |-> TRUE, cause |-> cause, result |-> ToolResult(FALSE, "list", "", cause)]
Returned(a, result) == [a |-> a, raised |-> FALSE, cause |-> result.cause, result |-> result]

\* The shapes the result of a tools/call at mcpUrl may have.
resultShapes(a, mcpUrl) ==
    IF a.backend.static THEN {a.backend[serverAt(mcpUrl)].shape} ELSE ResultShapes

\* mcpCallTool(mcpUrl, toolName, args)
mcpCallTool(a, mcpUrl, toolName, t) ==
    LET inits == IF a.sessions[mcpUrl] = Null
                 THEN mcpInitialize(a, mcpUrl, t)
                 ELSE {[a |-> a, thrown |-> FALSE, cause |-> "none"]}
    IN  UNION { IF i.thrown THEN {Raised(i.a, i.cause)}
                ELSE UNION { IF c.thrown THEN {Raised(c.a, c.cause)}
                             ELSE {Returned(c.a, normalizeResult(shape)) : shape \in resultShapes(a, mcpUrl)}
                             : c \in mcpRpc(i.a, mcpUrl, "tools/call", toolName, FALSE, t) }
                : i \in inits }

\* What a server answers to one stateless POST.
FetchStatuses == {"network_error", "ok", "unauthorized", "server_error"}
\* The body of the reply the loop ends with.
\*   not_json, empty, json_null : no JSON, nothing, the JSON value null
\*   error_field                : { error: ... }
\*   a result shape             : { result: <that shape> }
RestBodies == {"not_json", "empty", "json_null", "error_field"} \cup ResultShapes

\* What the server at restBase answers to a POST of a call path, and the
\* body of the reply the loop ends with.  A static backend may leave the
\* status of each reply open (anyStatus).
callStatuses(a, restBase, path) ==
    IF a.backend.static /\ ~a.backend.anyStatus
    THEN {IF path = "/api/call" THEN a.backend[serverAt(restBase)].apiCall
                                ELSE a.backend[serverAt(restBase)].plainCall}
    ELSE FetchStatuses
callBodies(a, restBase) ==
    IF a.backend.static THEN {a.backend[serverAt(restBase)].body} ELSE RestBodies

\* callUrls: [`${restBase}/api/call`, `${restBase}/call`]
callUrls == <<"/api/call", "/call">>

\* The for-loop over callUrls from its i-th URL on; response is the reply
\* kept so far ("none" before the first).  An outcome is the client state
\* and either the reply the loop ended with or an exception.
RECURSIVE restLoop(_, _, _, _, _, _, _)
restLoop(a, restBase, headers, tool, i, response, t) ==
    IF i > Len(callUrls) THEN {[a |-> a, thrown |-> FALSE, response |-> response]}
    ELSE
    LET a1 == logFetch(a, Request(restBase, callUrls[i], "POST", headers, Null, tool))
    IN UNION {
        CASE res = "network_error" -> {[a |-> a1, thrown |-> TRUE, response |-> response]}
          [] res = "ok" -> {[a |-> a1, thrown |-> FALSE, response |-> res]}
          [] res = "server_error" -> restLoop(a1, restBase, headers, tool, i + 1, res, t)
          [] res = "unauthorized" ->
               IF a1.ref # Null
               THEN UNION {
                      IF r.ok
                      THEN UNION {
                             LET a2 == logFetch(h.a, Request(restBase, callUrls[i], "POST", h.headers, Null, tool))
                             IN UNION {
                                  CASE retryRes = "network_error" ->
                                         {[a |-> a2, thrown |-> TRUE, response |-> res]}
                                    [] retryRes = "ok" ->
                                         {[a |-> a2, thrown |-> FALSE, response |-> retryRes]}
                                    [] OTHER -> restLoop(a2, restBase, headers, tool, i + 1, retryRes, t)
                                  : retryRes \in callStatuses(a, restBase, callUrls[i]) }
                             : h \in getMCPAuthHeadersAny(r.a, NoUrl, t) }
                      ELSE restLoop(r.a, restBase, headers, tool, i + 1, res, t)
                      : r \in refreshGoogleTokenAny(a1, t) }
               ELSE restLoop(emitAuthEvent(clearMCPGoogleToken(a1), "needs_relogin"),
                             restBase, headers, tool, i + 1, res, t)
        : res \in callStatuses(a, restBase, callUrls[i]) }

\* The tail of callMCPTool: read the body of the reply and build the result.
restResult(a, response, body) ==
    IF body = "not_json"
    THEN Returned(a, ToolResult(TRUE, "list", "not_valid_json",
                                IF response = "ok" THEN "unparseable" ELSE "http"))
    ELSE IF body = "json_null"
    THEN Raised(a, IF response = "ok" THEN "bad_envelope" ELSE "http")
    ELSE IF response # "ok"
    THEN Returned(a, ToolResult(TRUE, "list", "error", "http"))
    ELSE IF body = "error_field"
    THEN Returned(a, ToolResult(TRUE, "list", "error", "rpc_error"))
    ELSE IF body = "empty"
    THEN Returned(a, ToolResult(FALSE, "list", "undefined", "none"))
    ELSE Returned(a, normalizeResult(body))

\* a callMCPTool that lets the exception go
catchError_rethrows(o) == IF o.raised THEN [o EXCEPT !.result.thrown = TRUE] ELSE o

\* the catch block of callMCPTool
catchError(o) ==
    IF o.raised
    THEN [a |-> o.a, raised |-> FALSE, cause |-> o.cause,
          result |-> ToolResult(TRUE, "list", "error_calling", o.cause)]
    ELSE o

\* baseUrl.includes("localhost") || baseUrl.startsWith("http://127.0.0.1")
isLocalhost(u) == u.host = "localhost"

\* a callMCPTool that looks the owner up under the name as the caller spelled it
callMCPTool_rawLookup(a, toolName, t) ==
    LET normalizedToolName == normalizeToolName(toolName)
        baseUrl == IF toolName \in DOMAIN a.map
                   THEN a.map[toolName]
                   ELSE IF ~isEmptyUrl(MCP_SERVER_URL) THEN stripSlash(MCP_SERVER_URL) ELSE NoUrl
        restBase == IF isEmptyUrl(stripMcpOptSlash(baseUrl)) THEN baseUrl ELSE stripMcpOptSlash(baseUrl)
        body ==
          IF isEmptyUrl(baseUrl)
          THEN {Returned(a, ToolResult(TRUE, "list", "no_server", "no_server"))}
          ELSE IF isLocalhost(baseUrl)
          THEN {Returned(a, ToolResult(TRUE, "list", "localhost", "localhost"))}
          ELSE IF a.proto[baseUrl] = "mcp"
          THEN mcpCallTool(a, baseUrl, normalizedToolName, t)
          ELSE UNION {
                 UNION { IF l.thrown THEN {Raised(l.a, "network")}
                         ELSE {restResult(l.a, l.response, b) : b \in callBodies(a, restBase)}
                         : l \in restLoop(h.a, restBase, h.headers, normalizedToolName, 1, "none", t) }
                 : h \in getMCPAuthHeadersAny(a, baseUrl, t) }
    IN  {catchError(o) : o \in body}

\* callMCPTool(toolName, args) called at time t: every way the call can go.
callMCPTool(a, toolName, t) ==
    LET normalizedToolName == normalizeToolName(toolName)
        baseUrl == IF normalizedToolName \in DOMAIN a.map
                   THEN a.map[normalizedToolName]
                   ELSE IF ~isEmptyUrl(MCP_SERVER_URL) THEN stripSlash(MCP_SERVER_URL) ELSE NoUrl
        restBase == IF isEmptyUrl(stripMcpOptSlash(baseUrl)) THEN baseUrl ELSE stripMcpOptSlash(baseUrl)
        body ==
          IF isEmptyUrl(baseUrl)
          THEN {Returned(a, ToolResult(TRUE, "list", "no_server", "no_server"))}
          ELSE IF isLocalhost(baseUrl)
          THEN {Returned(a, ToolResult(TRUE, "list", "localhost", "localhost"))}
          ELSE IF a.proto[baseUrl] = "mcp"
          THEN mcpCallTool(a, baseUrl, normalizedToolName, t)
          ELSE UNION {
                 UNION { IF l.thrown THEN {Raised(l.a, "network")}
                         ELSE {restResult(l.a, l.response, b) : b \in callBodies(a, restBase)}
                         : l \in restLoop(h.a, restBase, h.headers, normalizedToolName, 1, "none", t) }
                 : h \in getMCPAuthHeadersAny(a, baseUrl, t) }
    IN  {catchError(o) : o \in body}

\* ------------------------------------------------------------------------
\* Discovery
\* ------------------------------------------------------------------------
N_drive_search_files == <<"drive", "_", "search", "_", "files">>
N_search == <<"search">>
N_search_flights == <<"search", "_", "flights">>
N_get_cache_stats == <<"get", "_", "cache", "_", "stats">>
N_clear_cache == <<"clear", "_", "cache">>

\* The tool lists a server may answer a listing request with, by server name.
ToolLists(serverName) ==
    IF serverName = "google"
    THEN {<<>>, <<N_drive_search_files>>, <<N_drive_search_files, N_search>>}
    ELSE {<<>>, <<N_search_flights, N_search, N_get_cache_stats>>, <<N_clear_cache>>}

\* The tool list the server at mcpUrl answers a tools/list with, and the one
\* it answers a GET of a stateless listing path with (<<>>: no list, or an
\* empty one).
listedTools(a, mcpUrl, serverName) ==
    IF a.backend.static THEN {a.backend[serverAt(mcpUrl)].tools} ELSE ToolLists(serverName)
restListed(a, base, path, serverName) ==
    IF a.backend.static
    THEN {IF path = "/api/tools" THEN a.backend[serverAt(base)].apiTools
                                 ELSE a.backend[serverAt(base)].plainTools}
    ELSE ToolLists(serverName)

\* normalizeBaseUrl
normalizeBaseUrl(url) ==
    LET stripped == stripSlash(url)
        baseUrl == IF stripped.tail # "/mcp" THEN [stripped EXCEPT !.tail = @ \o "/mcp"] ELSE stripped
    IN  [baseUrl |-> baseUrl, rootUrl |-> stripMcp(baseUrl)]

\* getMcpServerUrls
getMcpServerUrls ==
    LET google == IF ~isEmptyUrl(MCP_GOOGLE_URL)
                  THEN <<[baseUrl |-> normalizeBaseUrl(MCP_GOOGLE_URL).baseUrl, name |-> "google",
                          rootUrl |-> normalizeBaseUrl(MCP_GOOGLE_URL).rootUrl]>>
                  ELSE <<>>
        travel == IF ~isEmptyUrl(MCP_TRAVEL_URL)
                  THEN <<[baseUrl |-> normalizeBaseUrl(MCP_TRAVEL_URL).baseUrl, name |-> "travel",
                          rootUrl |-> normalizeBaseUrl(MCP_TRAVEL_URL).rootUrl]>>
                  ELSE IF SERPAPI_API_KEY # ""
                  THEN <<[baseUrl |-> [host |-> "mcp.serpapi.com", tail |-> "/mcp"], name |-> "travel",
                          rootUrl |-> NoUrl]>>
                  ELSE <<>>
    IN  google \o travel

\* mcpListTools(mcpUrl): an outcome is the client state, whether it threw,
\* and the tools listed.
mcpListTools(a, mcpUrl, serverName, t) ==
    LET inits == IF a.sessions[mcpUrl] = Null
                 THEN mcpInitialize(a, mcpUrl, t)
                 ELSE {[a |-> a, thrown |-> FALSE, cause |-> "none"]}
    IN  UNION { IF i.thrown THEN {[a |-> i.a, thrown |-> TRUE, tools |-> <<>>]}
                ELSE UNION { IF c.thrown THEN {[a |-> c.a, thrown |-> TRUE, tools |-> <<>>]}
                             ELSE {[a |-> c.a, thrown |-> FALSE, tools |-> l] : l \in listedTools(a, mcpUrl, serverName)}
                             : c \in mcpRpc(i.a, mcpUrl, "tools/list", <<>>, FALSE, t) }
                : i \in inits }

\* The stateless discovery paths of fetchToolsFromServer, in the order tried.
discoveryTargets(baseUrl, rootUrl) ==
    LET baseForRest == stripMcp(baseUrl)
        bases == IF ~isEmptyUrl(rootUrl) THEN <<rootUrl, baseForRest>> ELSE <<baseForRest>>
    IN  [k \in 1..(2 * Len(bases)) |->
            [base |-> bases[(k + 1) \div 2], path |-> IF k % 2 = 1 THEN "/api/tools" ELSE "/tools"]]

\* The nested for-loops of the stateless fallback from the k-th target on.
RECURSIVE restDiscover(_, _, _, _, _)
restDiscover(a, targets, headers, serverName, k) ==
    IF k > Len(targets) THEN {[a |-> a, tools |-> <<>>, baseUrlForCalls |-> NoUrl]}
    ELSE
    LET a1 == logFetch(a, Request(targets[k].base, targets[k].path, "GET", headers, Null, <<>>))
        lists == restListed(a, targets[k].base, targets[k].path, serverName)
    IN  (IF <<>> \in lists THEN restDiscover(a1, targets, headers, serverName, k + 1) ELSE {})
        \cup {[a |-> [a1 EXCEPT !.proto[targets[k].base] = "rest"], tools |-> l,
               baseUrlForCalls |-> targets[k].base] : l \in lists \ {<<>>}}

\* a fetchToolsFromServer without the stateless fallback
fetchToolsFromServer_noFallback(a, baseUrl, rootUrl, serverName, t) ==
    { IF ~m.thrown /\ Len(m.tools) > 0
      THEN [a |-> [m.a EXCEPT !.proto[baseUrl] = "mcp"], tools |-> m.tools, baseUrlForCalls |-> baseUrl]
      ELSE [a |-> m.a, tools |-> <<>>, baseUrlForCalls |-> baseUrl]
      : m \in mcpListTools(a, baseUrl, serverName, t) }

\* fetchToolsFromServer(baseUrl, rootUrl, serverName)
fetchToolsFromServer(a, baseUrl, rootUrl, serverName, t) ==
    UNION {
      IF ~m.thrown /\ Len(m.tools) > 0
      THEN {[a |-> [m.a EXCEPT !.proto[baseUrl] = "mcp"], tools |-> m.tools, baseUrlForCalls |-> baseUrl]}
      ELSE IF serverName # "travel"
      THEN UNION {
             {IF Len(r.tools) > 0 THEN r ELSE [r EXCEPT !.baseUrlForCalls = baseUrl]
                : r \in restDiscover(h.a, discoveryTargets(baseUrl, rootUrl), h.headers, serverName, 1)}
             : h \in getMCPAuthHeadersAny(m.a, baseUrl, t) }
      ELSE {[a |-> m.a, tools |-> <<>>, baseUrlForCalls |-> baseUrl]}
      : m \in mcpListTools(a, baseUrl, serverName, t) }

\* for (const t of tools) { allTools.push(t); toolToServerMap[t.name] = baseUrlForCalls; }
RECURSIVE recordOwners(_, _, _)
recordOwners(map, tools, baseUrlForCalls) ==
    IF tools = <<>> THEN map
    ELSE recordOwners([n \in DOMAIN map \cup {Head(tools)} |->
                          IF n = Head(tools) THEN baseUrlForCalls ELSE map[n]],
                      Tail(tools), baseUrlForCalls)

EmptyMap == [n \in {} |-> NoUrl]

\* The for-loop of listMCPTools over the servers from the k-th on.  listers
\* keeps, for every entry of allTools, the server whose list it came from
\* and the URL that server is called at (observation only).
RECURSIVE listLoop(_, _, _, _, _, _)
listLoop(a, allTools, listers, servers, k, t) ==
    IF k > Len(servers) THEN {[a |-> a, tools |-> allTools, listers |-> listers]}
    ELSE UNION {
           listLoop([f.a EXCEPT !.map = recordOwners(@, f.tools, f.baseUrlForCalls)],
                    allTools \o f.tools,
                    listers \o [i \in DOMAIN f.tools |->
                                  [name |-> servers[k].name, url |-> f.baseUrlForCalls]],
                    servers, k + 1, t)
           : f \in fetchToolsFromServer(a, servers[k].baseUrl, servers[k].rootUrl, servers[k].name, t) }

\* a listMCPTools that gives up the whole pass when a server lists nothing
listMCPTools_failFast(a, authInit, t) ==
    {IF \E k \in DOMAIN getMcpServerUrls :
          \A i \in DOMAIN o.listers : o.listers[i].name # getMcpServerUrls[k].name
     THEN [o EXCEPT !.tools = <<>>, !.listers = <<>>] ELSE o
       : o \in listLoop([loadPersistedAuth(a, authInit, t) EXCEPT !.map = EmptyMap],
                        <<>>, <<>>, getMcpServerUrls, 1, t)}

\* listMCPTools: an outcome is the client state, the new value of
\* _authInitialized being TRUE, and the tools returned.
listMCPTools(a, authInit, t) ==
    listLoop([loadPersistedAuth(a, authInit, t) EXCEPT !.map = EmptyMap],
             <<>>, <<>>, getMcpServerUrls, 1, t)

\* initializeMCPConnection: the same loop filling a local map; the map is
\* put in place at the end, unless no tool was found and the call throws.
\* An outcome is the client state, whether it threw, and the session's tools.
initializeMCPConnection(a, authInit, t) ==
    LET a0 == loadPersistedAuth(a, authInit, t)
    IN  { IF o.tools = <<>>
          THEN [a |-> [o.a EXCEPT !.map = a0.map], thrown |-> TRUE, tools |-> <<>>, listers |-> <<>>]
          ELSE [a |-> o.a, thrown |-> FALSE, tools |-> o.tools, listers |-> o.listers]
          : o \in listLoop([a0 EXCEPT !.map = EmptyMap], <<>>, <<>>, getMcpServerUrls, 1, t) }

\* checkMCPHealth: the probes of the servers' health endpoints in order, from
\* the k-th on; each probe asks for auth headers first.
healthProbes ==
    LET RECURSIVE probes(_)
        probes(k) == IF k > Len(getMcpServerUrls) THEN <<>>
                     ELSE LET srv == getMcpServerUrls[k]
                          IN  (IF ~isEmptyUrl(srv.rootUrl)
                               THEN <<[base |-> srv.rootUrl, baseUrl |-> srv.baseUrl],
                                      [base |-> srv.baseUrl, baseUrl |-> srv.baseUrl]>>
                               ELSE <<[base |-> srv.baseUrl, baseUrl |-> srv.baseUrl]>>)
                              \o probes(k + 1)
    IN  probes(1)

RECURSIVE healthLoop(_, _, _)
healthLoop(a, k, t) ==
    IF k > Len(healthProbes) THEN {[a |-> a, healthy |-> FALSE]}
    ELSE UNION {
           LET a1 == logFetch(h.a, Request(healthProbes[k].base, "/health", "GET", h.headers, Null, <<>>))
           IN  {[a |-> a1, healthy |-> TRUE]} \cup healthLoop(a1, k + 1, t)
           : h \in getMCPAuthHeadersAny(a, healthProbes[k].baseUrl, t) }

checkMCPHealth(a, t) == healthLoop(a, 1, t)

\* ------------------------------------------------------------------------
\* The client as a state machine: one action per exported operation.
\* ------------------------------------------------------------------------
\* Configurations (expo extra / environment) the model runs under.
Configs ==
    { [google |-> [host |-> "g", tail |-> "/mcp"], travel |-> [host |-> "t", tail |-> "/mcp"],
       apiKey |-> "k1", serp |-> ""],
      [google |-> [host |-> "g", tail |-> "/mcp/"], travel |-> NoUrl, apiKey |-> "", serp |-> "serp"],
      [google |-> NoUrl, travel |-> [host |-> "t", tail |-> ""], apiKey |-> "k1", serp |-> ""],
      [google |-> [host |-> "localhost", tail |-> "/mcp"], travel |-> NoUrl, apiKey |-> "", serp |-> ""] }

\* What secure storage holds when the process starts: nothing, or the
\* credential an earlier run of the app stored.
PersistedAtStart ==
    {EmptyStore}
    \cup {[access |-> tok, refresh |-> rt, expiry |-> toString(e * MsPerSecond)] :
            tok \in {"at1"}, rt \in RefreshTokens \cup {Null}, e \in 1..MaxTime}

NoResult == ToolResult(FALSE, "list", "", "none")

\* The observation of an operation that ran from the current state to a.
Observed(op, url, tool, a, ok, headers, refreshes, result) ==
    [op |-> op, url |-> url, tool |-> tool, t |-> now,
     pre |-> [acc |-> googleAccessToken, ref |-> googleRefreshToken, exp |-> googleTokenExpiry,
              store |-> secureStore, initialized |-> authInitialized],
     ok |-> ok, ev |-> a.ev, fetches |-> a.fetches, headers |-> headers,
     refreshes |-> refreshes, result |-> result]

\* A failure episode as getMCPAuthHeaders sees it: it starts with the call
\* whose refresh failed and lasts while only getMCPAuthHeaders is called.
\*   calls   : calls of getMCPAuthHeaders in the episode (counted up to MaxCalls)
\*   relogin : needs_relogin events emitted in the episode
\*   bearer  : whether a call of the episode returned an Authorization header
NoEpisode == [active |-> FALSE, calls |-> 0, relogin |-> 0, bearer |-> FALSE]
atMost(n, max) == IF n > max THEN max ELSE n

\* the number of events e in a sequence of events
RECURSIVE count(_, _)
count(ev, e) == IF ev = <<>> THEN 0 ELSE (IF Head(ev) = e THEN 1 ELSE 0) + count(Tail(ev), e)

Commit(a) ==
    /\ googleAccessToken' = a.acc
    /\ googleRefreshToken' = a.ref
    /\ googleTokenExpiry' = a.exp
    /\ secureStore' = a.store
    /\ mcpSessions' = a.sessions
    /\ serverProtocol' = a.proto
    /\ toolToServerMap' = a.map

MODEL == "gemini-3-flash-preview"
FALLBACK_MODEL == "gemini-2.5-flash"

\* chat() before its first turn.  Besides the locals of chat() a turn keeps
\* what was observed of it:
\*   attempts      the generateContent calls of the current iteration
\*   failed        how many of them failed
\*   modelCalls    the generateContent calls of the turn
\*   callResponses the iterations whose response carried function calls
\*   dispatched    the calls of callMCPTool
\*   lastDispatch  what the last of them returned
\*   deviations    how often the turn left the plain course
NoTurn ==
    [pc |-> "idle", iteration |-> 0, useWorkspace |-> FALSE, useTravel |-> FALSE,
     useSearch |-> FALSE, tools |-> [functionDeclarations |-> <<>>, googleSearch |-> FALSE],
     currentContents |-> <<>>, toolCalls |-> <<>>, events |-> <<>>,
     functionCallParts |-> <<>>, functionResponses |-> <<>>,
     finalResponse |-> Null, lastModelUsed |-> MODEL,
     attempts |-> <<>>, failed |-> 0, modelCalls |-> 0, callResponses |-> 0,
     dispatched |-> 0, lastDispatch |-> [isError |-> FALSE, text |-> ""], deviations |-> 0,
     response |-> [kind |-> "none", text |-> "", toolCalls |-> <<>>, thrown |-> FALSE]]

ClientInit ==
    /\ \E c \in Configs :
         /\ MCP_GOOGLE_URL = c.google
         /\ MCP_TRAVEL_URL = c.travel
         /\ MCP_API_KEY = c.apiKey
         /\ SERPAPI_API_KEY = c.serp
    /\ googleAccessToken = Null
    /\ googleRefreshToken = Null
    /\ googleTokenExpiry = 0
    /\ authInitialized = FALSE
    /\ secureStore \in PersistedAtStart
    /\ mcpSessions = [u \in Urls |-> Null]
    /\ serverProtocol = [u \in Urls |-> Null]
    /\ toolToServerMap = EmptyMap
    /\ now = MsPerSecond
    /\ tasks = NoTasks
    /\ backend = AnyBackend
    /\ initialized = FALSE
    /\ mcpConnected = FALSE
    /\ mcpTools = <<>>
    /\ turn = NoTurn
    /\ last = [op |-> "none", url |-> NoUrl, tool |-> <<>>, t |-> 0,
               pre |-> [acc |-> Null, ref |-> Null, exp |-> 0, store |-> EmptyStore,
                        initialized |-> FALSE],
               ok |-> TRUE, ev |-> <<>>, fetches |-> <<>>, headers |-> NoHeaders,
               refreshes |-> 0, result |-> NoResult]
    /\ episode = NoEpisode

\* time passes
Tick ==
    /\ now < MaxTime * MsPerSecond
    /\ now' = now + MsPerSecond
    /\ UNCHANGED <<cfgVars, tasks, authVars, mcpVars, brainVars, turn, last, episode>>

\* setMCPGoogleToken, called when the OAuth flow completes
SetMCPGoogleToken ==
    \E tok \in AccessTokens, e \in 0..MaxExpiresIn, rt \in RefreshTokens \cup {Null} :
      LET a == setMCPGoogleToken(ClientState, tok, e, rt, now)
      IN  /\ Commit(a)
          /\ last' = Observed("set", NoUrl, <<>>, a, TRUE, NoHeaders, 0, NoResult)
          /\ episode' = NoEpisode
          /\ UNCHANGED <<cfgVars, tasks, authInitialized, now, brainVars, turn>>

\* clearMCPGoogleToken, called on sign-out
ClearMCPGoogleToken ==
    LET a == clearMCPGoogleToken(ClientState)
    IN  /\ Commit(a)
        /\ last' = Observed("clear", NoUrl, <<>>, a, TRUE, NoHeaders, 0, NoResult)
        /\ episode' = NoEpisode
        /\ UNCHANGED <<cfgVars, tasks, authInitialized, now, brainVars, turn>>

\* refreshGoogleToken
RefreshGoogleToken ==
    \E r \in refreshGoogleTokenAny(ClientState, now) :
        /\ Commit(r.a)
        /\ last' = Observed("refresh", NoUrl, <<>>, r.a, r.ok, NoHeaders, 1, NoResult)
        /\ episode' = NoEpisode
        /\ UNCHANGED <<cfgVars, tasks, authInitialized, now, brainVars, turn>>

\* The URLs getMCPAuthHeaders is called with: the servers' endpoints, and
\* none at all (the retry of callMCPTool).
HeaderUrls == {getMcpServerUrls[k].baseUrl : k \in DOMAIN getMcpServerUrls} \cup {NoUrl}

\* mcpUrl is the API-key endpoint and a key is configured
isKeyed(mcpUrl) ==
    /\ ~isEmptyUrl(mcpUrl)
    /\ ~isEmptyUrl(stripMcp(stripSlash(MCP_TRAVEL_URL)))
    /\ stripMcp(stripSlash(mcpUrl)) = stripMcp(stripSlash(MCP_TRAVEL_URL))
    /\ MCP_API_KEY # ""

\* getMCPAuthHeaders(mcpUrl)
GetMCPAuthHeaders ==
    \E mcpUrl \in HeaderUrls :
      \E h \in getMCPAuthHeadersAny(ClientState, mcpUrl, now) :
        /\ Commit(h.a)
        /\ last' = Observed("headers", mcpUrl, <<>>, h.a, h.refreshed, h.headers, h.refreshes, NoResult)
        /\ episode' =
             IF episode.active
             THEN [episode EXCEPT !.calls = atMost(@ + 1, MaxCalls),
                                  !.relogin = atMost(@ + count(h.a.ev, "needs_relogin"), MaxCalls),
                                  !.bearer = @ \/ h.headers.authorization # Null]
             ELSE IF h.refreshes > 0 /\ ~h.refreshed
             THEN [active |-> TRUE, calls |-> 1, relogin |-> count(h.a.ev, "needs_relogin"),
                   bearer |-> h.headers.authorization # Null]
             ELSE NoEpisode
        /\ UNCHANGED <<cfgVars, tasks, authInitialized, now, brainVars, turn>>

\* loadPersistedAuth, called when the app starts
LoadPersistedAuth ==
    LET a == loadPersistedAuth(ClientState, authInitialized, now)
    IN  /\ Commit(a)
        /\ authInitialized' = TRUE
        /\ last' = Observed("load", NoUrl, <<>>, a, TRUE, NoHeaders, 0, NoResult)
        /\ episode' = NoEpisode
        /\ UNCHANGED <<cfgVars, tasks, now, brainVars, turn>>

\* Names a caller may ask callMCPTool for.
RawNames ==
    {N_drive_search_files, N_search_flights, N_search,
     <<"drive", "_", "search">>, <<"drive", ".", "search">>,
     <<"google", "_", "drive", "_", "search", "_", "files">>}

\* callMCPTool(toolName, args)
CallMCPTool ==
    \E toolName \in RawNames :
      \E o \in callMCPTool(Untraced, toolName, now) :
        /\ Commit(o.a)
        /\ last' = Observed("call", NoUrl, toolName, o.a, ~o.result.isError, NoHeaders, 0,
                            [o.result EXCEPT !.thrown = o.raised])
        /\ episode' = NoEpisode
        /\ UNCHANGED <<cfgVars, tasks, authInitialized, now, brainVars, turn>>

\* ------------------------------------------------------------------------
\* The agent: chat()
\* ------------------------------------------------------------------------
\* EXCLUDED_MCP_TOOLS
EXCLUDED_MCP_TOOLS == {N_search, N_get_cache_stats, N_clear_cache}

\* A user message, by what skill detection sees in it: the skills whose
\* triggers it contains and whether it contains a travel / a realtime hint.
Message(skills, travelHint, realtimeHint) ==
    [skills |-> skills, travelHint |-> travelHint, realtimeHint |-> realtimeHint]
Messages ==
    { Message({}, FALSE, FALSE),
      Message({"gmail_manage"}, FALSE, FALSE),
      Message({"travel_search"}, TRUE, FALSE),
      Message({"travel_search"}, FALSE, FALSE),
      Message({"web_search"}, FALSE, FALSE),
      Message({"gmail_manage"}, FALSE, TRUE) }

\* needsWorkspace
needsWorkspace(skills) ==
    skills \cap {"gmail_manage", "calendar_manage", "drive_manage", "contacts_manage"} # {}
\* needsTravel
needsTravel(skills, message) == "travel_search" \in skills /\ message.travelHint
\* needsSearch
needsSearch(skills, message) == "web_search" \in skills \/ message.realtimeHint

\* tools.filter(...) of a sequence of tool names
RECURSIVE filterExcluded(_)
filterExcluded(tools) ==
    IF tools = <<>> THEN <<>>
    ELSE IF Head(tools) \in EXCLUDED_MCP_TOOLS THEN filterExcluded(Tail(tools))
    ELSE <<Head(tools)>> \o filterExcluded(Tail(tools))

\* buildMCPFunctionDeclarations without the filter
buildMCPFunctionDeclarations_unfiltered(connected, tools) ==
    IF ~connected \/ Len(tools) = 0 THEN <<>> ELSE tools

\* buildMCPFunctionDeclarations: the names of the declared functions
buildMCPFunctionDeclarations(connected, tools) ==
    IF ~connected \/ Len(tools) = 0 THEN <<>> ELSE filterExcluded(tools)

\* a tools array that offers the search next to the declarations
buildTools_searchAlso(useWorkspace, useTravel, useSearch, connected, tools) ==
    LET mcpFunctions == IF useWorkspace \/ useTravel
                        THEN buildMCPFunctionDeclarations(connected, tools) ELSE <<>>
    IN  [functionDeclarations |-> mcpFunctions, googleSearch |-> useSearch]

\* The tools array of a turn: the function declarations and whether the
\* built-in search ({ googleSearch: {} }) is offered.
buildTools(useWorkspace, useTravel, useSearch, connected, tools) ==
    LET mcpFunctions == IF useWorkspace \/ useTravel
                        THEN buildMCPFunctionDeclarations(connected, tools) ELSE <<>>
    IN  IF Len(mcpFunctions) > 0
        THEN [functionDeclarations |-> mcpFunctions, googleSearch |-> FALSE]
        ELSE IF useSearch
        THEN [functionDeclarations |-> <<>>, googleSearch |-> TRUE]
        ELSE [functionDeclarations |-> <<>>, googleSearch |-> FALSE]

\* Messages of the running conversation.
UserMessage == [role |-> "user", kind |-> "text", parts |-> <<>>]
ModelCallMessage(functionCallParts) ==
    [role |-> "model", kind |-> "functionCalls", parts |-> functionCallParts]
ToolResultMessage(functionResponses) ==
    [role |-> "user", kind |-> "functionResponses", parts |-> functionResponses]

\* Names the model asks for; the first is the one of the plain course.
RequestedNames == <<N_search_flights, <<"drive", ".", "search">>>>

\* What generateContent resolves with, by what chat() looks at:
\*   text      a final answer
\*   no_text   a response without text and without function calls
\*   calls     function calls (their names in calls)
\*   malformed no response object at all
ModelResponses ==
    {[kind |-> k, calls |-> <<>>] : k \in {"text", "no_text", "malformed"}}
    \cup {[kind |-> "calls", calls |-> c] :
            c \in UNION {[1..n -> {RequestedNames[i] : i \in DOMAIN RequestedNames}] :
                            n \in 1..MaxCallsPerResponse}}

\* a response of the plain course
isPlainResponse(resp) ==
    \/ resp.kind = "text"
    \/ resp.kind = "calls" /\ resp.calls = <<RequestedNames[1]>>
\* the backend answers with function calls only if functions were declared
canAnswer(tr, resp) ==
    resp.kind = "calls" => Len(tr.tools.functionDeclarations) > 0
\* a tool result of the plain course
isPlainResult(result) == result = ToolResult(FALSE, "list", "result", "none")

\* onEvent?.({ type, data })
emit(tr, type, name) == [tr EXCEPT !.events = Append(@, [type |-> type, name |-> name])]

\* the catch block of the loop: return the apologetic response
iterationError(tr) ==
    [tr EXCEPT !.pc = "returned",
               !.response = [kind |-> "error", text |-> "error", toolCalls |-> tr.toolCalls,
                             thrown |-> FALSE]]

\* what follows the loop: final text or the fallback text, "complete", return
finalize(tr) ==
    LET done == emit(tr, "complete", <<>>)
    IN  [done EXCEPT !.pc = "returned",
                     !.response = [kind |-> "normal",
                                   text |-> IF tr.finalResponse = "text" THEN "final" ELSE "fallback",
                                   toolCalls |-> tr.toolCalls, thrown |-> FALSE]]

\* a loop that stays with the fallback model once it has answered
nextIteration_keepsFallback(tr) ==
    IF tr.iteration < MAX_TOOL_ITERATIONS
    THEN [tr EXCEPT !.iteration = @ + 1,
                    !.pc = IF tr.lastModelUsed = FALLBACK_MODEL THEN "fallback" ELSE "primary",
                    !.attempts = <<>>, !.failed = 0]
    ELSE finalize(tr)

\* while (iteration < MAX_TOOL_ITERATIONS) { iteration++; ... first model call
nextIteration(tr) ==
    IF tr.iteration < MAX_TOOL_ITERATIONS
    THEN [tr EXCEPT !.iteration = @ + 1, !.pc = "primary", !.attempts = <<>>, !.failed = 0]
    ELSE finalize(tr)

\* a fallback call that leaves the tools out
ModelCall_fallbackWithoutTools(tr, model) ==
    [model |-> model, contents |-> tr.currentContents, systemInstruction |-> "systemInstruction",
     tools |-> IF model = MODEL THEN tr.tools
               ELSE [functionDeclarations |-> <<>>, googleSearch |-> FALSE]]

\* the arguments of one generateContent call
ModelCall(tr, model) ==
    [model |-> model, contents |-> tr.currentContents, systemInstruction |-> "systemInstruction",
     tools |-> tr.tools]

\* a model call was made
called(tr, model) ==
    [tr EXCEPT !.attempts = Append(@, ModelCall(tr, model)), !.modelCalls = @ + 1]

\* the body of the loop after a model answered
handleResponse(tr, resp, model) ==
    LET used == [tr EXCEPT !.lastModelUsed = model]
    IN  IF resp.kind = "malformed" THEN iterationError(used)
        ELSE IF resp.kind # "calls"
        THEN finalize([used EXCEPT !.finalResponse = resp.kind])
        ELSE [used EXCEPT !.pc = "dispatch", !.functionCallParts = resp.calls,
                          !.functionResponses = <<>>, !.callResponses = @ + 1]

\* initializeBrain, its MCP part: checkMCPHealth sets mcpConnected, and
\* listMCPTools fills mcpTools if a server is healthy.
initializeBrain(a, authInit, tools, t) ==
    UNION { IF h.healthy
            THEN {[a |-> l.a, authInit |-> TRUE, connected |-> TRUE, tools |-> l.tools] :
                    l \in listMCPTools(h.a, authInit, t)}
            ELSE {[a |-> h.a, authInit |-> authInit, connected |-> FALSE, tools |-> tools]}
          : h \in checkMCPHealth(a, t) }

\* chat(message, context, onEvent) up to its first model call.  The brain is
\* initialised first if it is not yet.
ChatStart ==
    /\ turn.pc \in {"idle", "returned"}
    /\ \E message \in Messages :
       \E b \in (IF initialized
                 THEN {[a |-> Untraced, authInit |-> authInitialized,
                        connected |-> mcpConnected, tools |-> mcpTools]}
                 ELSE initializeBrain(Untraced, authInitialized, mcpTools, now)) :
         LET skills == message.skills
             useWorkspace == needsWorkspace(skills) /\ b.connected
             useTravel == needsTravel(skills, message) /\ b.connected
             useSearch == needsSearch(skills, message)
             started == emit([NoTurn EXCEPT
                                !.useWorkspace = useWorkspace,
                                !.useTravel = useTravel,
                                !.useSearch = useSearch,
                                !.tools = buildTools(useWorkspace, useTravel, useSearch,
                                                     b.connected, b.tools),
                                !.currentContents = <<UserMessage>>], "thinking", <<>>)
         IN  /\ Commit(b.a)
             /\ authInitialized' = b.authInit
             /\ initialized' = TRUE
             /\ mcpConnected' = b.connected
             /\ mcpTools' = b.tools
             /\ turn' = nextIteration(started)
    /\ UNCHANGED <<cfgVars, tasks, now, last, episode>>

\* attempt 0: the primary model answers or fails
ModelPrimary ==
    /\ turn.pc = "primary"
    /\ LET tr == called(turn, MODEL)
       IN  \/ \E resp \in ModelResponses :
                /\ isPlainResponse(resp) \/ turn.deviations < MaxDeviations
                /\ turn' = handleResponse(
                             [tr EXCEPT !.deviations = IF isPlainResponse(resp) THEN @ ELSE @ + 1],
                             resp, MODEL)
           \/ /\ turn.deviations < MaxDeviations
              /\ turn' = [tr EXCEPT !.pc = "fallback", !.failed = @ + 1, !.deviations = @ + 1]
    /\ UNCHANGED <<cfgVars, tasks, authVars, mcpVars, brainVars, now, last, episode>>

\* attempt 1: the fallback model answers or fails
ModelFallback ==
    /\ turn.pc = "fallback"
    /\ LET tr == called(turn, FALLBACK_MODEL)
       IN  \/ \E resp \in ModelResponses :
                /\ isPlainResponse(resp)
                /\ turn' = handleResponse(tr, resp, FALLBACK_MODEL)
           \/ turn' = iterationError([tr EXCEPT !.failed = @ + 1])
    /\ UNCHANGED <<cfgVars, tasks, authVars, mcpVars, brainVars, now, last, episode>>

\* one round of the for-loop over functionCallParts: tool_call, callMCPTool,
\* the record, tool_result, the function response; after the last part the
\* two messages are appended and the loop goes round
DispatchToolCall ==
    /\ turn.pc = "dispatch"
    /\ LET k == Len(turn.functionResponses) + 1
           toolName == turn.functionCallParts[k]
       IN  \E o \in callMCPTool(Untraced, toolName, now) :
             /\ isPlainResult(o.result) \/ turn.deviations < MaxDeviations
             /\ Commit(o.a)
             /\ turn' =
                  LET announced ==
                        [emit(turn, "tool_call", toolName) EXCEPT
                           !.dispatched = @ + 1,
                           !.lastDispatch = [isError |-> o.result.isError, text |-> o.result.text]]
                  IN
                  IF o.result.content # "list"
                  THEN iterationError([announced EXCEPT !.deviations = @ + 1])
                  ELSE LET resultText == o.result.text
                           recorded ==
                             emit([announced EXCEPT
                                     !.toolCalls = Append(@, [name |-> toolName, result |-> resultText,
                                                              status |-> IF o.result.isError THEN "error"
                                                                         ELSE "success"]),
                                     !.deviations = IF isPlainResult(o.result) THEN @ ELSE @ + 1,
                                     !.functionResponses =
                                        Append(@, [name |-> toolName, result |-> resultText])],
                                  IF o.result.isError THEN "tool_result_failure" ELSE "tool_result_success",
                                  toolName)
                       IN  IF k < Len(turn.functionCallParts) THEN recorded
                           ELSE nextIteration(
                                  [recorded EXCEPT !.currentContents =
                                      @ \o <<ModelCallMessage(turn.functionCallParts),
                                             ToolResultMessage(recorded.functionResponses)>>])
    /\ UNCHANGED <<cfgVars, tasks, authInitialized, brainVars, now, last, episode>>

vars == <<cfgVars, authVars, mcpVars, brainVars, now, turn, last, episode, tasks>>

\* The credential store: the operations on the OAuth credential.
Init == ClientInit

Next ==
    \/ Tick
    \/ SetMCPGoogleToken
    \/ ClearMCPGoogleToken
    \/ RefreshGoogleToken
    \/ GetMCPAuthHeaders
    \/ LoadPersistedAuth

Spec == Init /\ [][Next]_vars

\* The agent: turns of chat() on a client that is signed in or not.
ChatConfigs ==
    { [google |-> [host |-> "g", tail |-> "/mcp"], travel |-> [host |-> "t", tail |-> "/mcp"],
       apiKey |-> "k1", serp |-> ""] }

\* The catalogues a connected brain starts with: tools of both servers.
StartCatalogs ==
    {<<N_drive_search_files, N_search, N_search_flights, N_search, N_get_cache_stats>>,
     <<N_drive_search_files, N_clear_cache>>}

\* The servers a connected brain starts with: the workspace server answered
\* the stateless listing, the travel server the MCP one and opened a session.
StartServers(a) ==
    \A k \in DOMAIN getMcpServerUrls :
      LET srv == getMcpServerUrls[k]
      IN  IF srv.name = "google"
          THEN a.proto[srv.baseUrl] = Null /\ a.sessions[srv.baseUrl] = Null
          ELSE a.proto[srv.baseUrl] = "mcp" /\ a.sessions[srv.baseUrl] # Null

\* The brain has been initialised, from empty secure storage.
ChatInit ==
    /\ \E c \in ChatConfigs :
         /\ MCP_GOOGLE_URL = c.google
         /\ MCP_TRAVEL_URL = c.travel
         /\ MCP_API_KEY = c.apiKey
         /\ SERPAPI_API_KEY = c.serp
    /\ now = MsPerSecond
    /\ tasks = NoTasks
    /\ backend = AnyBackend
    /\ \E b \in initializeBrain(
                  [acc |-> Null, ref |-> Null, exp |-> 0, store |-> EmptyStore,
                   sessions |-> [u \in Urls |-> Null], proto |-> [u \in Urls |-> Null],
                   map |-> EmptyMap, ev |-> <<>>, fetches |-> <<>>, trace |-> FALSE,
                   backend |-> AnyBackend],
                  FALSE, <<>>, MsPerSecond) :
         /\ b.connected => b.tools \in StartCatalogs /\ StartServers(b.a)
         /\ googleAccessToken = b.a.acc
         /\ googleRefreshToken = b.a.ref
         /\ googleTokenExpiry = b.a.exp
         /\ secureStore = b.a.store
         /\ mcpSessions = b.a.sessions
         /\ serverProtocol = b.a.proto
         /\ toolToServerMap = b.a.map
         /\ authInitialized = b.authInit
         /\ mcpConnected = b.connected
         /\ mcpTools = b.tools
    /\ initialized = TRUE
    /\ turn = NoTurn
    /\ last = [op |-> "none", url |-> NoUrl, tool |-> <<>>, t |-> 0,
               pre |-> [acc |-> Null, ref |-> Null, exp |-> 0, store |-> EmptyStore,
                        initialized |-> FALSE],
               ok |-> TRUE, ev |-> <<>>, fetches |-> <<>>, headers |-> NoHeaders,
               refreshes |-> 0, result |-> NoResult]
    /\ episode = NoEpisode

ChatNext ==
    \/ ChatStart
    \/ ModelPrimary
    \/ ModelFallback
    \/ DispatchToolCall

SpecChat == ChatInit /\ [][ChatNext]_vars

\* chat() awaits generateContent and callMCPTool; when each of them settles
\* (resolves or rejects) the turn goes on.
ChatFairness ==
    /\ WF_vars(ModelPrimary)
    /\ WF_vars(ModelFallback)
    /\ WF_vars(DispatchToolCall)

SpecChatFair == SpecChat /\ ChatFairness

\* The servers of a connected client: the workspace server answered the
\* stateless listing, the travel server the MCP one, with a session or not.
CallServers(a) ==
    \A k \in DOMAIN getMcpServerUrls :
      LET srv == getMcpServerUrls[k]
      IN  IF srv.name = "google"
          THEN a.proto[srv.baseUrl] = Null /\ a.sessions[srv.baseUrl] = Null
          ELSE a.proto[srv.baseUrl] = "mcp"

\* The catalogue of the client that starts signed in.
SignedInCatalog == <<N_drive_search_files, N_search, N_search_flights, N_search, N_get_cache_stats>>

\* Tool calls: callMCPTool on a client that has connected, signed in or not.
CallInit ==
    /\ \E c \in Configs :
         /\ MCP_GOOGLE_URL = c.google
         /\ MCP_TRAVEL_URL = c.travel
         /\ MCP_API_KEY = c.apiKey
         /\ SERPAPI_API_KEY = c.serp
    /\ now = MsPerSecond
    /\ tasks = NoTasks
    /\ backend = AnyBackend
    /\ \E store \in {EmptyStore,
                      [access |-> "at1", refresh |-> Null, expiry |-> toString(MaxTime * MsPerSecond)]} :
       \E b \in initializeBrain(
                  [acc |-> Null, ref |-> Null, exp |-> 0, store |-> store,
                   sessions |-> [u \in Urls |-> Null], proto |-> [u \in Urls |-> Null],
                   map |-> EmptyMap, ev |-> <<>>, fetches |-> <<>>, trace |-> FALSE,
                   backend |-> AnyBackend],
                  FALSE, <<>>, MsPerSecond) :
         /\ b.connected => CallServers(b.a)
         /\ store # EmptyStore => (b.connected /\ b.tools = SignedInCatalog)
         /\ googleAccessToken = b.a.acc
         /\ googleRefreshToken = b.a.ref
         /\ googleTokenExpiry = b.a.exp
         /\ secureStore = b.a.store
         /\ mcpSessions = b.a.sessions
         /\ serverProtocol = b.a.proto
         /\ toolToServerMap = b.a.map
         /\ authInitialized = b.authInit
         /\ mcpConnected = b.connected
         /\ mcpTools = b.tools
    /\ initialized = TRUE
    /\ turn = NoTurn
    /\ last = [op |-> "none", url |-> NoUrl, tool |-> <<>>, t |-> 0,
               pre |-> [acc |-> Null, ref |-> Null, exp |-> 0, store |-> EmptyStore,
                        initialized |-> FALSE],
               ok |-> TRUE, ev |-> <<>>, fetches |-> <<>>, headers |-> NoHeaders,
               refreshes |-> 0, result |-> NoResult]
    /\ episode = NoEpisode

CallNext ==
    \/ CallMCPTool

SpecCall == CallInit /\ [][CallNext]_vars

\* ------------------------------------------------------------------------
\* Discovery and dispatch against servers that answer the same request the
\* same way every time, with every request observed.
\* ------------------------------------------------------------------------
\* Discovery passes in one behaviour.
MaxPasses == 2
\* Calls of a listed tool in one behaviour.
MaxListedCalls == 1
\* Ways in which the servers differ from servers that work.
MaxFaults == 2

\* Native names that normalizeToolName does not leave alone: an alias key,
\* a name with the google_ prefix, a name with a dot.
N_drive_search == <<"drive", "_", "search">>
N_google_calendar_list == <<"google", "_", "calendar", "_", "list">>
N_docs_get == <<"docs", ".", "get">>

\* Servers that work: both speak MCP, hand out a session and list their
\* tools; neither has stateless listing routes.
HealthyServer(tools) ==
    [init |-> [kind |-> "result", sid |-> "s1"], notif |-> [kind |-> "result", sid |-> Null],
     list |-> [kind |-> "result", sid |-> Null], call |-> [kind |-> "result", sid |-> Null],
     tools |-> tools, apiTools |-> <<>>, plainTools |-> <<>>,
     apiCall |-> "ok", plainCall |-> "ok", body |-> "content", shape |-> "content"]
HealthyBackend ==
    [static |-> TRUE, anyStatus |-> FALSE,
     google |-> HealthyServer(<<N_drive_search_files, N_search>>),
     travel |-> HealthyServer(<<N_search_flights, N_search, N_get_cache_stats>>)]

\* One way a server may differ: server s answers f with v.
Fault(s, f, v) == [s |-> s, f |-> f, v |-> v]
Faults ==
    {Fault(s, "init", v) : s \in {"google", "travel"},
                           v \in {[kind |-> "network_error", sid |-> Null],
                                  [kind |-> "http_error", sid |-> "s1"],
                                  [kind |-> "result", sid |-> Null]}}
    \cup {Fault(s, "notif", [kind |-> "network_error", sid |-> Null]) : s \in {"google", "travel"}}
    \cup {Fault(s, "list", [kind |-> "http_error", sid |-> Null]) : s \in {"google", "travel"}}
    \cup {Fault("google", "tools", v) :
            v \in {<<>>, <<N_drive_search, N_google_calendar_list, N_drive_search_files>>}}
    \cup {Fault("travel", "tools", v) : v \in {<<>>, <<N_docs_get, N_clear_cache>>}}
    \cup {Fault("google", f, <<N_drive_search_files>>) : f \in {"apiTools", "plainTools"}}
    \cup {Fault("google", "apiCall", v) : v \in {"unauthorized", "server_error"}}

Deviate(b, d) == [b EXCEPT ![d.s][d.f] = d.v]

\* The backends with at most k faults.
RECURSIVE Backends(_)
Backends(k) ==
    IF k = 0 THEN {HealthyBackend}
    ELSE Backends(k - 1) \cup {Deviate(b, d) : b \in Backends(k - 1), d \in Faults}

\* the workspace server as getMcpServerUrls lists it (it is listed first)
googleServer == getMcpServerUrls[1]

\* Both servers are configured: the travel server by URL and key, or the
\* hosted one by the SerpApi key.
DiscoverConfigs == {c \in Configs : c.google.host = "g"}

\* A run of discovery passes and calls: how many there were, and what the
\* pass before the last one returned and recorded.
NoDiscovery == [passes |-> 0, calls |-> 0, prevTools |-> <<>>, prevMap |-> EmptyMap,
                listers |-> <<>>]

\* A client that has just started, signed out or with a stored credential
\* that stays valid.
DiscoverInit ==
    /\ \E c \in DiscoverConfigs :
         /\ MCP_GOOGLE_URL = c.google
         /\ MCP_TRAVEL_URL = c.travel
         /\ MCP_API_KEY = c.apiKey
         /\ SERPAPI_API_KEY = c.serp
    /\ backend \in Backends(MaxFaults)
    /\ now = MsPerSecond
    /\ tasks = NoTasks
    /\ googleAccessToken = Null
    /\ googleRefreshToken = Null
    /\ googleTokenExpiry = 0
    /\ authInitialized = FALSE
    /\ secureStore \in {EmptyStore,
                        [access |-> "at1", refresh |-> Null, expiry |-> toString(MaxTime * MsPerSecond)]}
    /\ mcpSessions = [u \in Urls |-> Null]
    /\ serverProtocol = [u \in Urls |-> Null]
    /\ toolToServerMap = EmptyMap
    /\ initialized = FALSE
    /\ mcpConnected = FALSE
    /\ mcpTools = <<>>
    /\ turn = NoTurn
    /\ last = [op |-> "none", url |-> NoUrl, tool |-> <<>>, t |-> 0,
               pre |-> [acc |-> Null, ref |-> Null, exp |-> 0, store |-> EmptyStore,
                        initialized |-> FALSE],
               ok |-> TRUE, ev |-> <<>>, fetches |-> <<>>, headers |-> NoHeaders,
               refreshes |-> 0, result |-> NoResult]
    /\ episode = NoDiscovery

\* state.mcpTools = await listMCPTools()
ListMCPTools ==
    /\ episode.passes < MaxPasses
    /\ \E o \in listMCPTools(ClientState, authInitialized, now) :
         /\ Commit(o.a)
         /\ authInitialized' = TRUE
         /\ mcpTools' = o.tools
         /\ last' = Observed("list", NoUrl, <<>>, o.a, TRUE, NoHeaders, 0, NoResult)
         /\ episode' = [passes |-> episode.passes + 1, calls |-> episode.calls,
                        prevTools |-> mcpTools, prevMap |-> toolToServerMap,
                        listers |-> o.listers]
         /\ UNCHANGED <<cfgVars, tasks, now, initialized, mcpConnected, turn>>

\* callMCPTool with the name of a catalogue entry, as the server listed it
CallListedTool ==
    /\ episode.passes > 0
    /\ episode.calls < MaxListedCalls
    /\ \E i \in DOMAIN mcpTools :
       \E o \in callMCPTool(ClientState, mcpTools[i], now) :
         /\ Commit(o.a)
         /\ last' = Observed("call", episode.listers[i].url, mcpTools[i], o.a, ~o.result.isError,
                             NoHeaders, 0, [o.result EXCEPT !.thrown = o.raised])
         /\ episode' = [episode EXCEPT !.calls = @ + 1]
         /\ UNCHANGED <<cfgVars, tasks, authInitialized, now, brainVars, turn>>

\* Spellings of tool names a caller may produce: names as listed, with dots
\* for underscores, with the google_ prefix, and an alias.
Spellings ==
    {N_drive_search_files, N_drive_search, <<"drive", ".", "search">>,
     <<"google", "_", "drive", "_", "search", "_", "files">>,
     N_search_flights, <<"search", ".", "flights">>,
     <<"google", "_", "search", "_", "flights">>}

\* callMCPTool with a name as the model spelled it
CallSpelledTool ==
    /\ episode.passes > 0
    /\ episode.calls < MaxListedCalls
    /\ \E toolName \in Spellings :
       \E o \in callMCPTool(ClientState, toolName, now) :
         /\ Commit(o.a)
         /\ last' = Observed("spelled", NoUrl, toolName, o.a, ~o.result.isError,
                             NoHeaders, 0, [o.result EXCEPT !.thrown = o.raised])
         /\ episode' = [episode EXCEPT !.calls = @ + 1]
         /\ UNCHANGED <<cfgVars, tasks, authInitialized, now, brainVars, turn>>

DiscoverNext ==
    \/ ListMCPTools
    \/ CallListedTool
    \/ CallSpelledTool

SpecDiscover == DiscoverInit /\ [][DiscoverNext]_vars

\* ------------------------------------------------------------------------
\* Re-discovery: the client has discovered servers that worked; the servers
\* may have changed since.
\* ------------------------------------------------------------------------
\* reinitializeMCP(): currentSession = null; await initializeMCPConnection()
ReinitializeMCP ==
    /\ episode.passes < MaxPasses
    /\ \E o \in initializeMCPConnection(ClientState, authInitialized, now) :
         /\ Commit(o.a)
         /\ authInitialized' = TRUE
         /\ last' = Observed("reinit", NoUrl, <<>>, o.a, ~o.thrown, NoHeaders, 0,
                             [thrown |-> o.thrown, tools |-> o.tools])
         /\ episode' = [passes |-> episode.passes + 1, calls |-> episode.calls,
                        prevTools |-> mcpTools, prevMap |-> toolToServerMap,
                        listers |-> o.listers]
         /\ UNCHANGED <<cfgVars, tasks, now, brainVars, turn>>

RediscoverInit ==
    /\ \E c \in DiscoverConfigs :
         /\ MCP_GOOGLE_URL = c.google
         /\ MCP_TRAVEL_URL = c.travel
         /\ MCP_API_KEY = c.apiKey
         /\ SERPAPI_API_KEY = c.serp
    /\ backend \in Backends(MaxFaults)
    /\ now = MsPerSecond
    /\ tasks = NoTasks
    /\ \E store \in {EmptyStore,
                      [access |-> "at1", refresh |-> Null, expiry |-> toString(MaxTime * MsPerSecond)]} :
       \E o \in listMCPTools(
                  [acc |-> Null, ref |-> Null, exp |-> 0, store |-> store,
                   sessions |-> [u \in Urls |-> Null], proto |-> [u \in Urls |-> Null],
                   map |-> EmptyMap, ev |-> <<>>, fetches |-> <<>>, trace |-> FALSE,
                   backend |-> HealthyBackend],
                  FALSE, MsPerSecond) :
         /\ googleAccessToken = o.a.acc
         /\ googleRefreshToken = o.a.ref
         /\ googleTokenExpiry = o.a.exp
         /\ secureStore = o.a.store
         /\ mcpSessions = o.a.sessions
         /\ serverProtocol = o.a.proto
         /\ toolToServerMap = o.a.map
         /\ mcpTools = o.tools
         /\ episode = [NoDiscovery EXCEPT !.listers = o.listers]
    /\ authInitialized = TRUE
    /\ initialized = FALSE
    /\ mcpConnected = FALSE
    /\ turn = NoTurn
    /\ last = [op |-> "none", url |-> NoUrl, tool |-> <<>>, t |-> 0,
               pre |-> [acc |-> Null, ref |-> Null, exp |-> 0, store |-> EmptyStore,
                        initialized |-> FALSE],
               ok |-> TRUE, ev |-> <<>>, fetches |-> <<>>, headers |-> NoHeaders,
               refreshes |-> 0, result |-> NoResult]

RediscoverNext ==
    \/ ListMCPTools
    \/ ReinitializeMCP

SpecRediscover == RediscoverInit /\ [][RediscoverNext]_vars

\* ------------------------------------------------------------------------
\* The presentation layer: useMCPAuth, subscribed to the auth events.
\*   reloginAlertShown  the ref of the hook
\*   alerts             the "Session Expired" alerts shown since a token was
\*                      last stored by a refresh
\*   most               the largest value alerts has had
\* ------------------------------------------------------------------------
MountedHook == [reloginAlertShown |-> FALSE, alerts |-> 0, most |-> 0]

\* the callback useMCPAuth passes to onAuthEvent
onAuthEvent(ui, event) ==
    IF event = "needs_relogin"
    THEN IF ~ui.reloginAlertShown
         THEN [ui EXCEPT !.reloginAlertShown = TRUE, !.alerts = @ + 1,
                         !.most = IF ui.alerts + 1 > @ THEN ui.alerts + 1 ELSE @]
         ELSE ui
    ELSE IF event = "token_refreshed"
    THEN [ui EXCEPT !.reloginAlertShown = FALSE, !.alerts = 0]
    ELSE IF event = "token_cleared"
    THEN [ui EXCEPT !.reloginAlertShown = FALSE]
    ELSE ui

\* emitAuthEvent calls the callback synchronously, event by event
RECURSIVE delivered(_, _)
delivered(ui, events) ==
    IF events = <<>> THEN ui ELSE delivered(onAuthEvent(ui, Head(events)), Tail(events))

\* ------------------------------------------------------------------------
\* Operations in flight together.  The runtime has one thread: an operation
\* runs until it awaits, and other operations run while it waits.  A task
\* is an operation with the place where it resumes; one action is the code
\* between two awaits.
\* ------------------------------------------------------------------------
\* Operations in flight at once.
MaxTasks == 2
TaskIds == 1..MaxTasks

\* What the tasks did together: the requests sent and the auth events
\* emitted, in order.
NoRace == [fetches |-> <<>>, ev |-> <<>>]
observe(a) == [episode EXCEPT !.fetches = @ \o a.fetches, !.ev = @ \o a.ev]
moveTo(i, pc) == [tasks EXCEPT ![i].pc = pc]

\* The travel server's endpoint: the stateful one.
statefulEndpoint == getMcpServerUrls[Len(getMcpServerUrls)].baseUrl

\* Two stateful operations, mcpListTools or mcpCallTool, start on the
\* travel endpoint of a client that has no session yet.
SessionsInit ==
    /\ \E c \in {d \in Configs : d.google.host = "g" /\ d.travel.host = "t"} :
         /\ MCP_GOOGLE_URL = c.google
         /\ MCP_TRAVEL_URL = c.travel
         /\ MCP_API_KEY = c.apiKey
         /\ SERPAPI_API_KEY = c.serp
    /\ backend = AnyBackend
    /\ now = MsPerSecond
    /\ tasks \in [TaskIds -> [op : {"tools/list", "tools/call"}, pc : {"start"}]]
    /\ googleAccessToken = Null
    /\ googleRefreshToken = Null
    /\ googleTokenExpiry = 0
    /\ authInitialized = TRUE
    /\ secureStore = EmptyStore
    /\ mcpSessions = [u \in Urls |-> Null]
    /\ serverProtocol = [u \in Urls |-> Null]
    /\ toolToServerMap = EmptyMap
    /\ initialized = FALSE
    /\ mcpConnected = FALSE
    /\ mcpTools = <<>>
    /\ turn = NoTurn
    /\ last = [op |-> "none", url |-> NoUrl, tool |-> <<>>, t |-> 0,
               pre |-> [acc |-> Null, ref |-> Null, exp |-> 0, store |-> EmptyStore,
                        initialized |-> FALSE],
               ok |-> TRUE, ev |-> <<>>, fetches |-> <<>>, headers |-> NoHeaders,
               refreshes |-> 0, result |-> NoResult]
    /\ episode = NoRace

\* if (!_mcpSessions[mcpUrl]) { await mcpInitialize(mcpUrl); }
CheckSession(i) ==
    /\ tasks[i].pc = "start"
    /\ tasks' = moveTo(i, IF mcpSessions[statefulEndpoint] = Null THEN "initialize" ELSE "request")
    /\ UNCHANGED <<cfgVars, authVars, mcpVars, brainVars, now, turn, last, episode>>

\* one mcpRpc of task i: the request and what follows the reply
RpcStep(i, method, isNotification, next) ==
    \E o \in mcpRpc(ClientState, statefulEndpoint, method, <<>>, isNotification, now) :
      /\ Commit(o.a)
      /\ tasks' = moveTo(i, IF o.thrown THEN "failed" ELSE next)
      /\ episode' = observe(o.a)
      /\ UNCHANGED <<cfgVars, authInitialized, brainVars, now, turn, last>>

\* await mcpRpc(mcpUrl, "initialize", ...)
SendInitialize(i) == tasks[i].pc = "initialize" /\ RpcStep(i, "initialize", FALSE, "notify")
\* await mcpRpc(mcpUrl, "notifications/initialized", {}, true)
SendInitialized(i) ==
    tasks[i].pc = "notify" /\ RpcStep(i, "notifications/initialized", TRUE, "request")
\* await mcpRpc(mcpUrl, "tools/list") or await mcpRpc(mcpUrl, "tools/call", ...)
SendRequest(i) == tasks[i].pc = "request" /\ RpcStep(i, tasks[i].op, FALSE, "done")

SessionsNext ==
    \E i \in TaskIds :
      \/ CheckSession(i)
      \/ SendInitialize(i)
      \/ SendInitialized(i)
      \/ SendRequest(i)

SpecSessions == SessionsInit /\ [][SessionsNext]_vars

\* Two requests to the Google endpoint build their headers while the stored
\* credential has expired.
RefreshInit ==
    /\ \E c \in {d \in Configs : d.google.host = "g"} :
         /\ MCP_GOOGLE_URL = c.google
         /\ MCP_TRAVEL_URL = c.travel
         /\ MCP_API_KEY = c.apiKey
         /\ SERPAPI_API_KEY = c.serp
    /\ backend = AnyBackend
    /\ now = MsPerSecond
    /\ tasks \in [TaskIds -> [op : {"getMCPAuthHeaders"}, pc : {"start"}]]
    /\ googleAccessToken = "at1"
    /\ googleRefreshToken \in RefreshTokens \cup {Null}
    /\ googleTokenExpiry = now
    /\ authInitialized = TRUE
    /\ secureStore = [access |-> googleAccessToken, refresh |-> googleRefreshToken,
                      expiry |-> toString(googleTokenExpiry)]
    /\ mcpSessions = [u \in Urls |-> Null]
    /\ serverProtocol = [u \in Urls |-> Null]
    /\ toolToServerMap = EmptyMap
    /\ initialized = FALSE
    /\ mcpConnected = FALSE
    /\ mcpTools = <<>>
    /\ turn = NoTurn
    /\ last = [op |-> "none", url |-> NoUrl, tool |-> <<>>, t |-> 0,
               pre |-> [acc |-> Null, ref |-> Null, exp |-> 0, store |-> EmptyStore,
                        initialized |-> FALSE],
               ok |-> TRUE, ev |-> <<>>, fetches |-> <<>>, headers |-> NoHeaders,
               refreshes |-> 0, result |-> NoResult]
    /\ episode = NoRace

\* getMCPAuthHeaders(google endpoint) up to its first await: the expiry
\* test, and refreshGoogleToken up to its fetch.
HeadersStart(i) ==
    /\ tasks[i].pc = "start"
    /\ LET a == ClientState
           expired == a.acc # Null /\ a.exp <= now
           awaits  == expired /\ a.ref # Null /\ ~isEmptyUrl(serverBase)
           b == IF awaits THEN logFetch(a, RefreshRequest(serverBase))
                ELSE IF expired THEN refreshGoogleToken(a, now, CHOOSE r \in RefreshReplies : TRUE).a
                ELSE a
       IN  /\ Commit(b)
           /\ tasks' = moveTo(i, IF awaits THEN "refreshing" ELSE "done")
           /\ episode' = observe(b)
    /\ UNCHANGED <<cfgVars, authInitialized, brainVars, now, turn, last>>

\* refreshGoogleToken from the reply of the identity backend on
RefreshReply(i) ==
    /\ tasks[i].pc = "refreshing"
    /\ \E reply \in RefreshReplies :
         LET o == refreshReplied(ClientState, now, reply)
         IN  /\ Commit(o.a)
             /\ tasks' = moveTo(i, "done")
             /\ episode' = observe(o.a)
    /\ UNCHANGED <<cfgVars, authInitialized, brainVars, now, turn, last>>

RefreshNext == \E i \in TaskIds : HeadersStart(i) \/ RefreshReply(i)

SpecRefresh == RefreshInit /\ [][RefreshNext]_vars

\* listMCPTools as a task: where its loop stands, and the tools found so far
IdlePass == [op |-> "listMCPTools", pc |-> "idle", k |-> 0, tools |-> <<>>, listers |-> <<>>]

\* A client whose discovery pass has completed, against servers that keep
\* answering as they did.  episode.prevMap is the ownership map of the last
\* completed pass: what a call finds when no pass is running.
RouteInit ==
    /\ \E c \in DiscoverConfigs :
         /\ MCP_GOOGLE_URL = c.google
         /\ MCP_TRAVEL_URL = c.travel
         /\ MCP_API_KEY = c.apiKey
         /\ SERPAPI_API_KEY = c.serp
    /\ backend = HealthyBackend
    /\ now = MsPerSecond
    /\ tasks = <<IdlePass>>
    /\ \E store \in {EmptyStore,
                      [access |-> "at1", refresh |-> Null, expiry |-> toString(MaxTime * MsPerSecond)]} :
       \E o \in listMCPTools(
                  [acc |-> Null, ref |-> Null, exp |-> 0, store |-> store,
                   sessions |-> [u \in Urls |-> Null], proto |-> [u \in Urls |-> Null],
                   map |-> EmptyMap, ev |-> <<>>, fetches |-> <<>>, trace |-> FALSE,
                   backend |-> HealthyBackend],
                  FALSE, MsPerSecond) :
         /\ googleAccessToken = o.a.acc
         /\ googleRefreshToken = o.a.ref
         /\ googleTokenExpiry = o.a.exp
         /\ secureStore = o.a.store
         /\ mcpSessions = o.a.sessions
         /\ serverProtocol = o.a.proto
         /\ toolToServerMap = o.a.map
         /\ mcpTools = o.tools
         /\ episode = [NoDiscovery EXCEPT !.listers = o.listers, !.prevMap = o.a.map]
    /\ authInitialized = TRUE
    /\ initialized = FALSE
    /\ mcpConnected = FALSE
    /\ turn = NoTurn
    /\ last = [op |-> "none", url |-> NoUrl, tool |-> <<>>, t |-> 0,
               pre |-> [acc |-> Null, ref |-> Null, exp |-> 0, store |-> EmptyStore,
                        initialized |-> FALSE],
               ok |-> TRUE, ev |-> <<>>, fetches |-> <<>>, headers |-> NoHeaders,
               refreshes |-> 0, result |-> NoResult]

\* await loadPersistedAuth(); toolToServerMap = {}; ... up to the first
\* await fetchToolsFromServer
PassBegin ==
    /\ tasks[1].pc = "idle"
    /\ episode.passes < MaxPasses
    /\ Commit([loadPersistedAuth(ClientState, authInitialized, now) EXCEPT !.map = EmptyMap])
    /\ authInitialized' = TRUE
    /\ tasks' = <<[IdlePass EXCEPT !.pc = "listing", !.k = 1]>>
    /\ UNCHANGED <<cfgVars, now, brainVars, turn, last, episode>>

\* one turn of the loop: await fetchToolsFromServer, then record the owners;
\* after the last server the pass returns allTools
PassServer ==
    /\ tasks[1].pc = "listing"
    /\ LET servers == getMcpServerUrls
           k == tasks[1].k
       IN  \E f \in fetchToolsFromServer(ClientState, servers[k].baseUrl, servers[k].rootUrl,
                                         servers[k].name, now) :
             LET allTools == tasks[1].tools \o f.tools
                 listers  == tasks[1].listers \o
                               [i \in DOMAIN f.tools |->
                                  [name |-> servers[k].name, url |-> f.baseUrlForCalls]]
                 map      == recordOwners(f.a.map, f.tools, f.baseUrlForCalls)
             IN  /\ Commit([f.a EXCEPT !.map = map])
                 /\ IF k < Len(servers)
                    THEN /\ tasks' = <<[tasks[1] EXCEPT !.k = k + 1, !.tools = allTools,
                                                        !.listers = listers]>>
                         /\ UNCHANGED <<mcpTools, episode>>
                    ELSE /\ tasks' = <<IdlePass>>
                         /\ mcpTools' = allTools
                         /\ episode' = [episode EXCEPT !.passes = @ + 1, !.listers = listers,
                                                       !.prevTools = mcpTools, !.prevMap = map]
    /\ UNCHANGED <<cfgVars, authInitialized, now, initialized, mcpConnected, turn, last>>

\* callMCPTool with the name of a catalogue entry, between two steps of the
\* pass or while no pass is running; last.url is the entry's owner in the
\* map of the last completed pass
CallDuringPass ==
    /\ episode.calls < MaxListedCalls
    /\ \E i \in DOMAIN mcpTools :
       \E o \in callMCPTool(ClientState, mcpTools[i], now) :
         /\ Commit(o.a)
         /\ last' = Observed("call", episode.prevMap[normalizeToolName(mcpTools[i])], mcpTools[i],
                             o.a, ~o.result.isError, NoHeaders, 0,
                             [o.result EXCEPT !.thrown = o.raised])
         /\ episode' = [episode EXCEPT !.calls = @ + 1]
         /\ UNCHANGED <<cfgVars, tasks, authInitialized, now, brainVars, turn>>

RouteNext == PassBegin \/ PassServer \/ CallDuringPass

SpecRoute == RouteInit /\ [][RouteNext]_vars

\* ------------------------------------------------------------------------
\* The stateless call path with every request observed: the workspace
\* server was discovered at its stateless listing route, the user is signed
\* in, and the server answers each POST with any status.
\* ------------------------------------------------------------------------
\* Stateless calls in one behaviour.
MaxRestCalls == 1

RetryBackend == [HealthyBackend EXCEPT !.anyStatus = TRUE]

RetryInit ==
    /\ \E c \in DiscoverConfigs :
         /\ MCP_GOOGLE_URL = c.google
         /\ MCP_TRAVEL_URL = c.travel
         /\ MCP_API_KEY = c.apiKey
         /\ SERPAPI_API_KEY = c.serp
    /\ backend = RetryBackend
    /\ now = MsPerSecond
    /\ tasks = NoTasks
    /\ googleAccessToken = "at1"
    /\ googleRefreshToken \in RefreshTokens \cup {Null}
    /\ googleTokenExpiry = MaxTime * MsPerSecond
    /\ authInitialized = TRUE
    /\ secureStore = [access |-> googleAccessToken, refresh |-> googleRefreshToken,
                      expiry |-> toString(googleTokenExpiry)]
    /\ mcpSessions = [u \in Urls |-> Null]
    /\ serverProtocol = [[u \in Urls |-> Null] EXCEPT ![googleServer.rootUrl] = "rest"]
    /\ toolToServerMap = recordOwners(EmptyMap, <<N_drive_search_files>>, googleServer.rootUrl)
    /\ initialized = FALSE
    /\ mcpConnected = FALSE
    /\ mcpTools = <<N_drive_search_files>>
    /\ turn = NoTurn
    /\ last = [op |-> "none", url |-> NoUrl, tool |-> <<>>, t |-> 0,
               pre |-> [acc |-> Null, ref |-> Null, exp |-> 0, store |-> EmptyStore,
                        initialized |-> FALSE],
               ok |-> TRUE, ev |-> <<>>, fetches |-> <<>>, headers |-> NoHeaders,
               refreshes |-> 0, result |-> NoResult]
    /\ episode = NoDiscovery

\* callMCPTool for the tool the workspace server listed at its stateless route
CallRestTool ==
    /\ episode.calls < MaxRestCalls
    /\ \E o \in callMCPTool(ClientState, N_drive_search_files, now) :
         /\ Commit(o.a)
         /\ last' = Observed("rest", googleServer.rootUrl, N_drive_search_files, o.a,
                             ~o.result.isError, NoHeaders, 0, [o.result EXCEPT !.thrown = o.raised])
         /\ episode' = [episode EXCEPT !.calls = @ + 1]
         /\ UNCHANGED <<cfgVars, tasks, authInitialized, now, brainVars, turn>>

RetryNext ==
    \/ CallRestTool

SpecRetry == RetryInit /\ [][RetryNext]_vars

\* ------------------------------------------------------------------------
\* Properties of the agentic loop
\* ------------------------------------------------------------------------
\* the turn has returned and every iteration's response asked for a tool call
AlwaysToolCall == turn.pc = "returned" /\ turn.callResponses = turn.iteration

\* C1: a call of chat() runs at most 8 loop iterations; if the backend
\* requests a tool call in every response, exactly 8 iterations run and
\* chat() returns a normal response with the fallback text, without throwing.
C1_AsStated ==
    /\ turn.iteration <= MAX_TOOL_ITERATIONS
    /\ AlwaysToolCall =>
         /\ turn.iteration = MAX_TOOL_ITERATIONS
         /\ turn.response.kind = "normal"
         /\ turn.response.text = "fallback"
         /\ ~turn.response.thrown

\* C2: every call of callMCPTool the loop dispatches adds exactly one record
\* to toolCalls, whatever became of the invocation, and none makes chat()
\* throw.
C2_AsStated ==
    /\ Len(turn.toolCalls) = turn.dispatched
    /\ ~turn.response.thrown

\* a dispatch step whose invocation came back as an error
ErroredDispatch ==
    /\ turn.pc = "dispatch"
    /\ turn'.dispatched = turn.dispatched + 1
    /\ turn'.lastDispatch.isError

\* the text of the last record / of the last function response kept
lastRecord(tr) == tr.toolCalls[Len(tr.toolCalls)]
fedBack(tr, text) ==
    \/ /\ tr.pc = "dispatch"
       /\ Len(tr.functionResponses) > 0
       /\ tr.functionResponses[Len(tr.functionResponses)].result = text
    \/ /\ tr.pc # "dispatch"
       /\ LET m == tr.currentContents[Len(tr.currentContents)]
          IN  /\ m.kind = "functionResponses"
              /\ m.parts[Len(m.parts)].result = text

\* C3: when a dispatched invocation errors, its record has status "error",
\* the error text is appended to the conversation as the tool result, and the
\* loop goes on (to the next call of the response, to the next model call,
\* or out of the loop at the ceiling) instead of ending the turn.
C3_AsStated ==
    [][ErroredDispatch =>
         /\ Len(turn'.toolCalls) = Len(turn.toolCalls) + 1
         /\ lastRecord(turn').status = "error"
         /\ lastRecord(turn').result = turn'.lastDispatch.text
         /\ fedBack(turn', turn'.lastDispatch.text)
         /\ \/ turn'.pc \in {"dispatch", "primary"}
            \/ /\ turn.iteration = MAX_TOOL_ITERATIONS
               /\ turn'.response.kind = "normal"]_vars

\* C4: in each iteration the primary model is tried first; the fallback is
\* called exactly once and only after the primary call failed, with the same
\* contents, system instruction and tools; if both fail chat() returns the
\* apologetic text with the records collected so far and throws nothing.
C4_FallbackOnce ==
    /\ Len(turn.attempts) <= 2
    /\ Len(turn.attempts) >= 1 => turn.attempts[1].model = MODEL
    /\ Len(turn.attempts) = 2 =>
         /\ turn.failed >= 1
         /\ turn.attempts[2] = [turn.attempts[1] EXCEPT !.model = FALLBACK_MODEL]
    /\ turn.failed = 0 => Len(turn.attempts) <= 1
    /\ turn.failed = 1 =>
         \/ turn.pc = "fallback" /\ Len(turn.attempts) = 1
         \/ turn.pc # "fallback" /\ Len(turn.attempts) = 2
    /\ turn.failed = 2 =>
         /\ Len(turn.attempts) = 2
         /\ turn.pc = "returned"
         /\ turn.response.kind = "error"
         /\ turn.response.text = "error"
         /\ turn.response.toolCalls = turn.toolCalls
         /\ ~turn.response.thrown
    /\ turn.failed <= 2

\* both models failed after tool calls had been recorded
C4_Witness ==
    /\ turn.failed = 2
    /\ Len(turn.toolCalls) > 0
    /\ turn.attempts[2].tools.functionDeclarations # <<>>

\* at most one of the two kinds of tool, and the search only if flagged
exclusive(tools, useSearch) ==
    /\ ~(Len(tools.functionDeclarations) > 0 /\ tools.googleSearch)
    /\ tools.googleSearch => (Len(tools.functionDeclarations) = 0 /\ useSearch)

\* C5: the tools of every model call hold function declarations or the
\* built-in search or nothing, never both, and the search only when no
\* function is declared and the search flag is set.
C5_ToolsExclusive ==
    /\ exclusive(turn.tools, turn.useSearch)
    /\ \A i \in DOMAIN turn.attempts : exclusive(turn.attempts[i].tools, turn.useSearch)

\* a model call was made in a turn that needed both kinds of tool
C5_Witness ==
    /\ turn.useSearch
    /\ turn.useWorkspace
    /\ Len(turn.attempts) > 0
    /\ Len(turn.attempts[1].tools.functionDeclarations) > 0

\* the names in a sequence of tool names
names(tools) == {tools[i] : i \in DOMAIN tools}

FailureCauses == {"network", "http", "unparseable", "rpc_error", "handshake"}

\* C7: callMCPTool never throws; for every tool name and server behaviour it
\* returns a result, and after a network failure, a non-2xx reply, an
\* unparseable body, a JSON-RPC error envelope or a failed handshake the
\* result has isError set and a text content item with a message.
C7_NeverThrows ==
    last.op = "call" =>
      /\ ~last.result.thrown
      /\ last.result.cause \in FailureCauses =>
           /\ last.result.isError
           /\ last.result.content = "list"
           /\ last.result.text \in {"error_calling", "error", "not_valid_json"}
      /\ last.result.cause \in {"no_server", "localhost"} => last.result.isError

\* a call whose session handshake failed came back as an error result
C7_Witness ==
    /\ last.op = "call"
    /\ last.result.cause = "handshake"
    /\ last.result.isError
    /\ last.result.text = "error_calling"

\* ------------------------------------------------------------------------
\* Properties of the credential store
\* ------------------------------------------------------------------------
\* the requests of the last operation that went to /auth/refresh
refreshRequests == {i \in DOMAIN last.fetches : last.fetches[i].path = "/auth/refresh"}

\* the last operation was getMCPAuthHeaders with a cached credential whose
\* expiry is not later than the time of the call
HeadersOnExpired == last.op = "headers" /\ last.pre.acc # Null /\ last.pre.exp <= last.t

\* no needs_relogin beyond the first, and no Authorization header, in a failure episode
EpisodeQuiet == episode.active => (episode.relogin = 1 /\ ~episode.bearer /\ googleAccessToken = Null)

\* C8 as stated: with a cached OAuth credential whose expiry is not later
\* than now, getMCPAuthHeaders makes exactly one refresh call, whatever
\* endpoint it is called for; a failed refresh gives no Authorization header
\* and one needs_relogin event in the whole failure episode.
C8_AsStated ==
    /\ HeadersOnExpired => (last.refreshes = 1 /\ (~last.ok => last.headers.authorization = Null))
    /\ EpisodeQuiet

\* C8 (amended): with a cached OAuth credential whose expiry is not later
\* than now, getMCPAuthHeaders called for an endpoint other than the keyed
\* API-key endpoint calls refreshGoogleToken exactly once (and sends at most
\* one refresh request); called for the keyed API-key endpoint it makes no
\* refresh call and emits nothing.  If the refresh fails, no Authorization
\* header is returned and exactly one needs_relogin event is emitted in the
\* whole failure episode, however often getMCPAuthHeaders is called after it.
C8_OneRefreshOneRelogin ==
    /\ (HeadersOnExpired /\ ~isKeyed(last.url)) =>
          /\ last.refreshes = 1
          /\ Cardinality(refreshRequests) <= 1
          /\ (~last.ok => last.headers.authorization = Null)
    /\ (HeadersOnExpired /\ isKeyed(last.url)) =>
          (last.refreshes = 0 /\ last.ev = <<>> /\ last.headers.authorization = Null)
    /\ EpisodeQuiet

\* a failure episode in which getMCPAuthHeaders was called again after the
\* failed refresh, the refresh request having reached the backend
C8_Witness ==
    /\ episode.active /\ episode.calls >= 2 /\ episode.relogin = 1
    /\ last.op = "headers" /\ last.pre.acc = Null

\* the credential is cleared, in memory and in secure storage
Cleared ==
    /\ googleAccessToken = Null /\ googleRefreshToken = Null /\ googleTokenExpiry = 0
    /\ secureStore = EmptyStore

\* the last operation was a call of refreshGoogleToken that returned false
RefreshFailed == last.op = "refresh" /\ ~last.ok

Mirror ==
    /\ secureStore.access = googleAccessToken
    /\ secureStore.refresh = googleRefreshToken
    /\ IF secureStore.expiry = <<>> THEN googleTokenExpiry = 0
       ELSE parseInt(secureStore.expiry) = googleTokenExpiry

\* the last operation was one of the three calls C10 is about
AfterSetClearRefresh == last.op \in {"set", "clear", "refresh"}

Untouched ==
    /\ googleAccessToken = last.pre.acc
    /\ googleRefreshToken = last.pre.ref
    /\ googleTokenExpiry = last.pre.exp
    /\ secureStore = last.pre.store

\* the last operation found a credential persisted
FoundPersisted == last.pre.store.access # Null /\ last.pre.store.expiry # <<>>

sent == {last.fetches[i] : i \in DOMAIN last.fetches}
\* a request to the travel server, a request carrying the bearer token
toTravel(r) == serverAt(r.url) = "travel"
withBearer(r) == r.headers.authorization # Null

\* C12 as the specification states it: every request to the travel endpoint
\* carries the configured X-API-Key and no bearer token, the bearer token
\* goes only to the OAuth-protected (workspace) endpoint, and no request
\* carries both headers.
C12_AsStated ==
    \A r \in sent :
      /\ ~(r.headers.xApiKey # Null /\ withBearer(r))
      /\ toTravel(r) => (~withBearer(r) /\ (MCP_API_KEY # "" => r.headers.xApiKey = MCP_API_KEY))
      /\ withBearer(r) => serverAt(r.url) = "google"

\* ------------------------------------------------------------------------
\* Properties of a discovery pass
\* ------------------------------------------------------------------------
ServerNames == {getMcpServerUrls[k].name : k \in DOMAIN getMcpServerUrls}
\* every request to server s is rejected by the transport
Unreachable(s) ==
    /\ backend[s].init.kind = "network_error"
    /\ backend[s].apiTools = <<>> /\ backend[s].plainTools = <<>>
\* server s completes the handshake and answers tools/list with its tools
Answers(s) ==
    /\ backend[s].init.kind = "result"
    /\ backend[s].notif.kind = "result"
    /\ backend[s].list.kind = "result"
    /\ backend[s].tools # <<>>
\* the entries of the catalogue that came from server s, in order
RECURSIVE entriesOf(_, _, _)
entriesOf(tools, listers, s) ==
    IF tools = <<>> THEN <<>>
    ELSE (IF Head(listers).name = s THEN <<Head(tools)>> ELSE <<>>)
         \o entriesOf(Tail(tools), Tail(listers), s)

\* C13: after a discovery pass, the catalogue holds no tool of a server
\* whose discovery failed with a transport error and every tool of every
\* server that answers, whatever subset of the servers is unreachable; and
\* a pass that is started always returns.
C13_PartialFailureIsolated ==
    /\ listMCPTools(ClientState, authInitialized, now) # {}
    /\ last.op = "list" =>
         \A s \in ServerNames :
           /\ Unreachable(s) => entriesOf(mcpTools, episode.listers, s) = <<>>
           /\ Answers(s) => entriesOf(mcpTools, episode.listers, s) = backend[s].tools

\* a pass in which the travel server was unreachable and the workspace
\* server's tools were all listed
C13_Witness ==
    /\ last.op = "list"
    /\ Unreachable("travel") /\ Answers("google")
    /\ mcpTools = backend.google.tools /\ mcpTools # <<>>

\* two entries of the catalogue have the same name
Duplicated == \E i, j \in DOMAIN mcpTools : i < j /\ mcpTools[i] = mcpTools[j]
\* the last entry of the catalogue named n
lastEntry(n) == CHOOSE i \in DOMAIN mcpTools :
                  mcpTools[i] = n /\ \A j \in DOMAIN mcpTools : mcpTools[j] = n => j <= i

\* C14 as the specification states it: the catalogue a pass returns has no
\* two entries of the same name, and the owner of a name is the server
\* discovered last among those that list it.
C14_AsStated ==
    last.op = "list" =>
      /\ ~Duplicated
      /\ \A i \in DOMAIN mcpTools :
           toolToServerMap[mcpTools[i]] = episode.listers[lastEntry(mcpTools[i])].url

\* ------------------------------------------------------------------------
\* Properties of the routing of callMCPTool
\* ------------------------------------------------------------------------
\* what callMCPTool called now with name n would send: its requests in order
requestsOf(n) == {o.a.fetches : o \in callMCPTool(ClientState, n, now)}
\* a request that asks the travel server for search_flights
asksTravelForFlights(r) == toTravel(r) /\ r.tool = N_search_flights

\* C15: in every state of the ownership map (before the first pass and after
\* each pass), two spellings with the same canonical name are dispatched
\* alike: callMCPTool sends the same requests to the same endpoint under the
\* same tool name for both.
C15_SpellingsRouteAlike ==
    last.op \in {"none", "list"} =>
      \A n1, n2 \in Spellings :
        normalizeToolName(n1) = normalizeToolName(n2) => requestsOf(n1) = requestsOf(n2)

\* the travel server owns search_flights, search.flights has been called and
\* went to the travel server as search_flights
C15_Witness ==
    /\ last.op = "spelled" /\ last.tool = <<"search", ".", "flights">>
    /\ N_search_flights \in DOMAIN toolToServerMap
    /\ \E r \in sent : asksTravelForFlights(r)

\* the requests of the last operation that ask for a tool
toolRequests == {r \in sent : r.tool # <<>>}

\* C16 as the specification states it: a call of a catalogue entry under the
\* name its server listed it with sends its requests to the server that
\* listed the entry, and asks for the tool under that name.
C16_AsStated ==
    last.op = "call" =>
      /\ \A r \in sent : serverAt(r.url) = serverAt(last.url)
      /\ \A r \in toolRequests : r.tool = last.tool

\* ------------------------------------------------------------------------
\* Properties of the discovery of one server
\* ------------------------------------------------------------------------
\* the stateless listing requests of the last pass, in the order sent
isGet(r) == r.method = "GET"
gets == SelectSeq(last.fetches, isGet)
\* the stateless discovery paths in their order: /api/tools and /tools at
\* the server root, then at the endpoint without its /mcp
statelessPaths ==
    <<[url |-> googleServer.rootUrl, path |-> "/api/tools"],
      [url |-> googleServer.rootUrl, path |-> "/tools"],
      [url |-> stripMcp(googleServer.baseUrl), path |-> "/api/tools"],
      [url |-> stripMcp(googleServer.baseUrl), path |-> "/tools"]>>
\* what the workspace server answers at a stateless path
listAt(path) == IF path = "/api/tools" THEN backend.google.apiTools ELSE backend.google.plainTools
\* the workspace server's entries of the catalogue, and whether the
\* stateful attempt supplied them
googleEntries == entriesOf(mcpTools, episode.listers, "google")
statefulZero == \A i \in DOMAIN episode.listers :
                  episode.listers[i].name = "google" => episode.listers[i].url # googleServer.baseUrl

\* C17: in a discovery pass, no stateless request goes to the travel
\* server; when the stateful attempt at the workspace server yields no
\* tools, the stateless paths are requested in their fixed order up to the
\* first that answers a non-empty list, which supplies the server's tools;
\* the server is recorded with zero tools only after all paths were tried.
C17_StatelessFallbackInOrder ==
    last.op = "list" =>
      /\ \A k \in DOMAIN gets : ~toTravel(gets[k])
      /\ statefulZero =>
           /\ Len(gets) \in 1..Len(statelessPaths)
           /\ \A k \in DOMAIN gets :
                /\ gets[k].url = statelessPaths[k].url /\ gets[k].path = statelessPaths[k].path
                /\ k < Len(gets) => listAt(gets[k].path) = <<>>
           /\ googleEntries = listAt(gets[Len(gets)].path)
           /\ googleEntries = <<>> => Len(gets) = Len(statelessPaths)

\* the stateful attempt gave nothing, /api/tools gave nothing, and /tools
\* supplied the workspace server's tools
C17_Witness ==
    /\ last.op = "list"
    /\ statefulZero
    /\ Len(gets) = 2
    /\ googleEntries = backend.google.plainTools /\ googleEntries # <<>>

\* ------------------------------------------------------------------------
\* Properties of repeated discovery
\* ------------------------------------------------------------------------
\* the last pass was not the first
SecondPass == last.op = "list" /\ episode.passes > 1

\* C19 as the specification states it: against servers that answer the same
\* request the same way every time, a pass returns the names the pass
\* before it returned, in the same order, and records the same owners.
C19_AsStated ==
    SecondPass => (mcpTools = episode.prevTools /\ toolToServerMap = episode.prevMap)

\* ------------------------------------------------------------------------
\* Properties of the stateful path
\* ------------------------------------------------------------------------
RpcMethods == {"initialize", "notifications/initialized", "tools/list", "tools/call"}
\* the JSON-RPC requests the last operation sent to endpoint u, in order
rpcTo(u) == SelectSeq(last.fetches, LAMBDA r : r.url = u /\ r.method \in RpcMethods)
methodsTo(u) == [k \in DOMAIN rpcTo(u) |-> rpcTo(u)[k].method]
rpcEndpoints == {r.url : r \in {q \in sent : q.method \in RpcMethods}}
\* the handshake with the server at u succeeds
handshakeWorks(u) ==
    /\ backend[serverAt(u)].init.kind = "result"
    /\ backend[serverAt(u)].notif.kind # "network_error"

\* C20: the JSON-RPC requests one operation sends to one endpoint.  Without
\* a cached session they are initialize, then notifications/initialized,
\* then the tools/list or tools/call request, and they stop where the
\* handshake fails: after a failed initialize nothing more is sent.  With a
\* cached session the request is sent alone, without initialize.
C20_HandshakeThenRequest ==
    \A u \in rpcEndpoints :
      LET ms == methodsTo(u)
          request == IF last.op = "list" THEN "tools/list" ELSE "tools/call"
      IN  IF rpcTo(u)[1].session = Null
          THEN IF backend[serverAt(u)].init.kind # "result" THEN ms = <<"initialize">>
               ELSE IF ~handshakeWorks(u) THEN ms = <<"initialize", "notifications/initialized">>
               ELSE ms = <<"initialize", "notifications/initialized", request>>
          ELSE ms = <<request>>

\* a call that found no cached session and sent the handshake before the
\* tools/call request
C20_Witness ==
    /\ last.op = "call"
    /\ \E u \in rpcEndpoints :
         /\ rpcTo(u)[1].session = Null
         /\ methodsTo(u) = <<"initialize", "notifications/initialized", "tools/call">>

\* ------------------------------------------------------------------------
\* Properties of the stateless call path
\* ------------------------------------------------------------------------
\* a POST of a call path, and the positions of the POSTs that repeat an
\* earlier POST of the same path
isCallPost(r) == r.method = "POST" /\ r.path \in {callUrls[k] : k \in DOMAIN callUrls}
retriedPosts ==
    {i \in DOMAIN last.fetches :
       /\ isCallPost(last.fetches[i])
       /\ \E j \in 1..(i - 1) :
            isCallPost(last.fetches[j]) /\ last.fetches[j].path = last.fetches[i].path}

\* C18 as the specification states it: one stateless call sends at most one
\* refresh request and repeats at most one POST, over all its call paths.
C18_AsStated ==
    last.op = "rest" => (Cardinality(refreshRequests) <= 1 /\ Cardinality(retriedPosts) <= 1)

\* ------------------------------------------------------------------------
\* Properties of re-discovery
\* ------------------------------------------------------------------------
\* the ownership map holds exactly the names of a catalogue, each with a
\* server that listed the name
mapIs(tools, listers) ==
    /\ DOMAIN toolToServerMap = {tools[i] : i \in DOMAIN tools}
    /\ \A i \in DOMAIN tools :
         \E j \in DOMAIN tools : tools[j] = tools[i] /\ toolToServerMap[tools[i]] = listers[j].url

\* C22 as the specification states it: when a pass of listMCPTools or of
\* initializeMCPConnection has ended, with tools or without, the ownership
\* map is that of the pass's catalogue and holds nothing of an earlier pass.
C22_AsStated ==
    /\ last.op = "list" => mapIs(mcpTools, episode.listers)
    /\ last.op = "reinit" => mapIs(last.result.tools, episode.listers)

\* ------------------------------------------------------------------------
\* Properties of operations in flight together
\* ------------------------------------------------------------------------
\* the initialize requests the tasks have sent to the stateful endpoint
initializeRequests ==
    {k \in DOMAIN episode.fetches :
       episode.fetches[k].method = "initialize" /\ episode.fetches[k].url = statefulEndpoint}

\* C21 as the specification states it: stateful operations that start
\* together on an endpoint without a session send at most one initialize
\* to it.
C21_AsStated == Cardinality(initializeRequests) <= 1

\* the refresh requests the tasks have sent to the identity backend
refreshesSent == {k \in DOMAIN episode.fetches : episode.fetches[k].path = "/auth/refresh"}
\* the events of one kind the tasks have emitted
eventsOf(kind) == {k \in DOMAIN episode.ev : episode.ev[k] = kind}

\* C27 as the specification states it: requests that find the credential
\* expired together send at most one refresh to the identity backend and
\* emit at most one needs_relogin, and no token_cleared follows a
\* token_refreshed.
C27_AsStated ==
    /\ Cardinality(refreshesSent) <= 1
    /\ Cardinality(eventsOf("needs_relogin")) <= 1
    /\ \A j \in eventsOf("token_refreshed"), k \in eventsOf("token_cleared") : k < j

\* C28 as the specification states it: a call of a catalogue entry goes to
\* the endpoint that owns the entry in the map of the last completed pass,
\* also when it runs between two steps of a pass.
C28_AsStated ==
    last.op = "call" => \A r \in toolRequests : r.url = last.url

\* ------------------------------------------------------------------------
\* Properties of the events, the conversation and the model calls of a turn
\* ------------------------------------------------------------------------
isToolCall(e) == e.type = "tool_call"
isToolResult(e) == e.type \in {"tool_result_success", "tool_result_failure"}
\* the tool events of the turn, in order
toolEvents == SelectSeq(turn.events, LAMBDA e : isToolCall(e) \/ isToolResult(e))

\* C23 as the specification states it: the tool events of a turn alternate,
\* a tool_call and then the tool_result of the same name, the calls of the
\* running response in response order; when the turn has returned there are
\* as many tool_call events as tool_result events as records.
C23_AsStated ==
    /\ \A i \in DOMAIN toolEvents :
         IF i % 2 = 1 THEN isToolCall(toolEvents[i])
         ELSE isToolResult(toolEvents[i]) /\ toolEvents[i].name = toolEvents[i - 1].name
    /\ turn.pc = "dispatch" =>
         \A k \in DOMAIN turn.functionResponses :
           turn.functionResponses[k].name = turn.functionCallParts[k]
    /\ turn.pc = "returned" =>
         /\ Len(SelectSeq(turn.events, isToolCall)) = Len(SelectSeq(turn.events, isToolResult))
         /\ Len(SelectSeq(turn.events, isToolCall)) = Len(turn.toolCalls)

\* C24 as the specification states it: a turn that has returned has emitted
\* "complete" exactly once, as its last event.
C24_AsStated ==
    turn.pc = "returned" =>
      /\ Len(SelectSeq(turn.events, LAMBDA e : e.type = "complete")) = 1
      /\ turn.events[Len(turn.events)].type = "complete"

\* the turn is under way
running == turn.pc \in {"primary", "fallback", "dispatch"}

\* C25 as the specification states it: when every model call and every tool
\* invocation settles, a turn under way returns; and a turn that returned
\* after the model asked for tool calls in every response ran to the
\* iteration ceiling.
C25_AsStated ==
    /\ running ~> turn.pc = "returned"
    /\ [](AlwaysToolCall => turn.iteration = MAX_TOOL_ITERATIONS)

\* the conversation grew by the tool-call message and the tool-result message
\* of the running response
appendedPair(old, new, calls) ==
    /\ Len(new) = Len(old) + 2
    /\ SubSeq(new, 1, Len(old)) = old
    /\ new[Len(old) + 1] = ModelCallMessage(calls)
    /\ new[Len(old) + 2].role = "user" /\ new[Len(old) + 2].kind = "functionResponses"
    /\ Len(new[Len(old) + 2].parts) = Len(calls)
    /\ \A k \in DOMAIN calls : new[Len(old) + 2].parts[k].name = calls[k]

\* C26 as the specification states it: an iteration whose response asks for
\* tool calls ends with the two messages appended to the conversation and
\* the earlier messages unchanged, every other step leaves the conversation
\* as it is, and a response without tool calls ends the loop.
C26_AsStated ==
    [][running =>
         /\ \/ turn'.currentContents = turn.currentContents
            \/ appendedPair(turn.currentContents, turn'.currentContents, turn.functionCallParts)
         /\ (turn.pc = "dispatch" /\ turn'.pc # "dispatch") =>
               appendedPair(turn.currentContents, turn'.currentContents, turn.functionCallParts)
         /\ (turn.pc # "dispatch" /\ turn'.pc = "returned" /\ turn'.failed < 2) =>
               /\ turn'.callResponses = turn.callResponses
               /\ turn'.currentContents = turn.currentContents]_vars

C29_AsStated == delivered(MountedHook, last.ev).most <= 1

====
